---- MODULE Spec2Model ----
(***************************************************************************)
(* Backtesting engine of engulfing_candle: Position, Portfolio,            *)
(* PerformanceMetrics and the day-by-day loop of EngulfingBacktester.      *)
(*                                                                         *)
(* Numbers.  The code computes in floats; the model computes in integers   *)
(* and keeps every quotient exact by its choice of prices:                 *)
(*   - fractions of the configuration (position_size_pct, stop_loss_pct,   *)
(*     stop_win_pct) are held in hundredths (0.05 is 5);                   *)
(*   - return_pct is held in hundredths of a percent (24.9 is 2490);       *)
(*   - dates are day ordinals, so (exit_date - entry_date).days is a       *)
(*     difference and strftime('%Y-%m-%d') keeps the ordinal.              *)
(* Optional fields (None until the close) are <<>> when unset and <<v>>    *)
(* when set.                                                               *)
(***************************************************************************)
EXTENDS Integers, Sequences, FiniteSets, TLC

\* ------------------------------------------------------------------ bounds

\* Number of calendar days a dataset may span.
MaxDays == 2
\* Rows the date filter of one symbol's signals may return for one day.
MaxSignalsPerDay == 2
\* Position objects one run or one API session may construct.
MaxPositions == 2
\* Calls of one API session.
MaxCalls == 3
\* Calls of one session of the PerformanceMetrics API.
MaxMetricsCalls == 4

\* ------------------------------------------------------ program constants

DefaultInitialCapital == 1000000
DefaultPositionSizePct == 5
DefaultStopLossPct == 5
DefaultStopWinPct == 20
DefaultCommissionBps == 10

\* ------------------------------------------------------------------ inputs

\* The stock files, in the order stock_files.sort() gives them.
Symbols == <<"A", "B">>

SymbolSet == {Symbols[i] : i \in 1..Len(Symbols)}

Days == 1..MaxDays

\* Close prices; each divides the position value, so shares is exact.
Prices == {80, 100}

SignalTypes == {"bullish", "bearish", "none"}

ExitReasons == {"pattern_exit", "stop_loss", "stop_win"}

\* BacktestConfig()
DefaultConfig ==
  [initial_capital |-> DefaultInitialCapital,
   position_size_pct |-> DefaultPositionSizePct,
   stop_loss_pct |-> DefaultStopLossPct,
   stop_win_pct |-> DefaultStopWinPct,
   commission_bps |-> DefaultCommissionBps]

\* BacktestConfig(stop_win_pct=-0.25): the dataclass validates nothing, and
\* under this one a single price can satisfy both stop predicates.
BothStopsConfig == [DefaultConfig EXCEPT !.stop_win_pct = 0 - 25]

Configs == {DefaultConfig, BothStopsConfig}

None == <<>>

Some(v) == <<v>>

\* ------------------------------------------------------------------- state

VARIABLES
  config,            \* BacktestConfig given to the constructor
  heap,              \* the Position objects constructed so far, by identity
  positions,         \* Portfolio.positions: insertion-ordered dict, <<symbol, id>>
  closed_positions,  \* Portfolio.closed_positions: list of Position ids
  cash,              \* Portfolio.cash
  trades,            \* PerformanceMetrics.trades
  signals_cache,     \* EngulfingBacktester._signals_cache: the symbols it holds
  generate_calls,    \* per symbol, the series each generate_signals call was given
  all_stock_data,    \* run_backtest: symbol -> the dates of its rows
  trading_days,      \* run_backtest: the sorted timeline
  day_idx,           \* run_backtest: index of the day being processed
  day_close,         \* the close of each row of the current day read so far (0: none)
  pc,                \* where run_backtest stands
  stop_queue,        \* _check_all_stops_on_date: rest of list(positions.items())
  sym_queue,         \* _process_all_signals_on_date: rest of all_stock_data.items()
  cur_symbol,        \* _process_all_signals_on_date: symbol of the inner loop
  sig_left,          \* most rows day_signals.iterrows() may still give
  signal,            \* the row iterrows() gave last
  stop_checked,      \* the item the stop loop handled last
  results,           \* what run_backtest returns
  stock_files,       \* the data directory: what each symbol's file holds
  scenario,          \* compared runs: the listings and the rows they are given
  run_outcome,       \* compared runs: what each run returned
  ret,               \* API sessions: the last call and what it returned
  calls              \* API sessions: calls made

vars == <<config, heap, positions, closed_positions, cash, trades, signals_cache,
          generate_calls, all_stock_data, trading_days, day_idx, day_close, pc, stop_queue,
          sym_queue, cur_symbol, sig_left, signal, stop_checked, results,
          stock_files, scenario, run_outcome, ret, calls>>

\* What run_backtest is given, and what the compared runs returned.
givenVars == <<stock_files, scenario, run_outcome>>

portfolioVars == <<heap, positions, closed_positions, cash>>

engineVars == <<signals_cache, generate_calls, all_stock_data, trading_days, day_idx, day_close,
                stop_queue, sym_queue, cur_symbol, sig_left, signal, stop_checked,
                results, givenVars>>

\* ---------------------------------------------------------------- Position

\* Position(...) and __post_init__: the exit fields are None, the status OPEN.
Position(symbol, position_type, entry_date, entry_price, shares, entry_value, stop_loss_pct, stop_win_pct) ==
  [symbol |-> symbol, position_type |-> position_type, entry_date |-> entry_date,
   entry_price |-> entry_price, shares |-> shares, entry_value |-> entry_value,
   stop_loss_pct |-> stop_loss_pct, stop_win_pct |-> stop_win_pct,
   exit_date |-> None, exit_price |-> None, exit_value |-> None,
   return_pct |-> None, return_amount |-> None, hold_days |-> None,
   exit_reason |-> None, commission |-> None, status |-> "open"]

\* (return_amount / entry_value) * 100, in hundredths of a percent.
ReturnPct(return_amount, entry_value) == (return_amount * 100 * 100) \div entry_value

\* Mutant of Position_close_position: the return of a Short is computed as
\* that of a Long.
Position_close_position_ShortAsLong(p, exit_date, exit_price, exit_reason, commission) ==
  LET exit_value == p.shares * exit_price
      return_amount == exit_value - p.entry_value - commission
  IN [p EXCEPT !.exit_date = Some(exit_date),
               !.exit_price = Some(exit_price),
               !.exit_value = Some(exit_value),
               !.commission = Some(commission),
               !.return_amount = Some(return_amount),
               !.return_pct = Some(ReturnPct(return_amount, p.entry_value)),
               !.hold_days = Some(exit_date - p.entry_date),
               !.exit_reason = Some(exit_reason),
               !.status = "closed"]

\* Position.close_position: no check of the status; every exit field is assigned.
Position_close_position(p, exit_date, exit_price, exit_reason, commission) ==
  LET exit_value == p.shares * exit_price
      return_amount == IF p.position_type = "long"
                       THEN exit_value - p.entry_value - commission
                       ELSE p.entry_value - exit_value - commission
  IN [p EXCEPT !.exit_date = Some(exit_date),
               !.exit_price = Some(exit_price),
               !.exit_value = Some(exit_value),
               !.commission = Some(commission),
               !.return_amount = Some(return_amount),
               !.return_pct = Some(ReturnPct(return_amount, p.entry_value)),
               !.hold_days = Some(exit_date - p.entry_date),
               !.exit_reason = Some(exit_reason),
               !.status = "closed"]

\* Mutant of check_stop_loss: the comparisons are strict.
check_stop_loss_Strict(p, current_price) ==
  IF p.position_type = "long"
  THEN current_price * 100 < p.entry_price * (100 - p.stop_loss_pct)
  ELSE current_price * 100 > p.entry_price * (100 + p.stop_loss_pct)

\* Position.check_stop_loss: price <= entry*(1 - sl) for a long,
\* price >= entry*(1 + sl) for a short; both sides times 100.
check_stop_loss(p, current_price) ==
  IF p.position_type = "long"
  THEN current_price * 100 <= p.entry_price * (100 - p.stop_loss_pct)
  ELSE current_price * 100 >= p.entry_price * (100 + p.stop_loss_pct)

\* Mutant of check_stop_win: the comparisons are strict.
check_stop_win_Strict(p, current_price) ==
  IF p.position_type = "long"
  THEN current_price * 100 > p.entry_price * (100 + p.stop_win_pct)
  ELSE current_price * 100 < p.entry_price * (100 - p.stop_win_pct)

\* Position.check_stop_win.
check_stop_win(p, current_price) ==
  IF p.position_type = "long"
  THEN current_price * 100 >= p.entry_price * (100 + p.stop_win_pct)
  ELSE current_price * 100 <= p.entry_price * (100 - p.stop_win_pct)

\* Position.to_dict: the flattened copy PerformanceMetrics keeps.
to_dict(p) ==
  [symbol |-> p.symbol, entry_date |-> p.entry_date, exit_date |-> p.exit_date,
   position_type |-> p.position_type, entry_price |-> p.entry_price,
   exit_price |-> p.exit_price, shares |-> p.shares, entry_value |-> p.entry_value,
   exit_value |-> p.exit_value, return_pct |-> p.return_pct,
   return_amount |-> p.return_amount, hold_days |-> p.hold_days,
   exit_reason |-> p.exit_reason, commission |-> p.commission]

\* --------------------------------------------------------------- Portfolio

\* Python's dict, keys in insertion order: key in d, d[key], d[key] = v, del d[key].
DictHas(d, key) == \E i \in 1..Len(d) : d[i][1] = key

DictGet(d, key) == d[CHOOSE i \in 1..Len(d) : d[i][1] = key][2]

DictSet(d, key, v) ==
  IF DictHas(d, key)
  THEN [i \in 1..Len(d) |-> IF d[i][1] = key THEN <<key, v>> ELSE d[i]]
  ELSE Append(d, <<key, v>>)

DictDel(d, key) == SelectSeq(d, LAMBDA e : e[1] # key)

\* The Portfolio object, with the Position objects it refers to.
PF == [heap |-> heap, positions |-> positions,
       closed_positions |-> closed_positions, cash |-> cash]

\* Mutant of has_position_in_stock: an open position in any stock counts.
has_position_in_stock_AnyStock(P, symbol) == P.positions # <<>>

\* Portfolio.has_position_in_stock
has_position_in_stock(P, symbol) == DictHas(P.positions, symbol)

\* position_value = initial_capital * position_size_pct
PositionValue(cfg) == (cfg.initial_capital * cfg.position_size_pct) \div 100

\* Mutant of OpenPosition: the position value is the capital's fraction
\* divided among the positions open after the insert.
OpenPosition_SplitsByOpenCount(P, cfg, symbol, position_type, entry_date, entry_price) ==
  LET position_value == PositionValue(cfg) \div (Len(P.positions) + 1)
      shares == position_value \div entry_price
      position == Position(symbol, position_type, entry_date, entry_price, shares,
                           position_value, cfg.stop_loss_pct, cfg.stop_win_pct)
  IN [P EXCEPT !.heap = Append(P.heap, position),
               !.positions = DictSet(P.positions, symbol, Len(P.heap) + 1)]

\* The body shared by open_long_position and open_short_position after the
\* has_position_in_stock check: size, construct, insert.
OpenPosition(P, cfg, symbol, position_type, entry_date, entry_price) ==
  LET position_value == PositionValue(cfg)
      shares == position_value \div entry_price
      position == Position(symbol, position_type, entry_date, entry_price, shares,
                           position_value, cfg.stop_loss_pct, cfg.stop_win_pct)
  IN [P EXCEPT !.heap = Append(P.heap, position),
               !.positions = DictSet(P.positions, symbol, Len(P.heap) + 1)]

\* Mutant of open_long_position: the has_position_in_stock test is missing, so
\* the new position replaces the one the symbol holds.
open_long_position_NoGuard(P, cfg, symbol, entry_date, entry_price) ==
  [pf |-> OpenPosition(P, cfg, symbol, "long", entry_date, entry_price), ret |-> TRUE]

\* Mutant of open_long_position: the position value is taken from the cash.
open_long_position_SpendsCash(P, cfg, symbol, entry_date, entry_price) ==
  IF has_position_in_stock(P, symbol)
  THEN [pf |-> P, ret |-> FALSE]
  ELSE [pf |-> [OpenPosition(P, cfg, symbol, "long", entry_date, entry_price)
                  EXCEPT !.cash = @ - PositionValue(cfg)],
        ret |-> TRUE]

\* Portfolio.open_long_position: the new portfolio and the value returned.
open_long_position(P, cfg, symbol, entry_date, entry_price) ==
  IF has_position_in_stock(P, symbol)
  THEN [pf |-> P, ret |-> FALSE]
  ELSE [pf |-> OpenPosition(P, cfg, symbol, "long", entry_date, entry_price),
        ret |-> TRUE]

\* Mutant of open_short_position: the copy of open_long_position kept its
\* PositionType.LONG.
open_short_position_OpensLong(P, cfg, symbol, entry_date, entry_price) ==
  IF has_position_in_stock(P, symbol)
  THEN [pf |-> P, ret |-> FALSE]
  ELSE [pf |-> OpenPosition(P, cfg, symbol, "long", entry_date, entry_price),
        ret |-> TRUE]

\* Portfolio.open_short_position
open_short_position(P, cfg, symbol, entry_date, entry_price) ==
  IF has_position_in_stock(P, symbol)
  THEN [pf |-> P, ret |-> FALSE]
  ELSE [pf |-> OpenPosition(P, cfg, symbol, "short", entry_date, entry_price),
        ret |-> TRUE]

\* Mutant of Commission: the commission is charged for the entry and for the
\* exit.
Commission_BothSides(cfg, p) == 2 * ((p.entry_value * cfg.commission_bps) \div 10000)

\* commission = (position.entry_value * commission_bps) / 10000
Commission(cfg, p) == (p.entry_value * cfg.commission_bps) \div 10000

\* Mutant of Portfolio_close_position: the `symbol not in self.positions` test
\* guards the close only; the move to the closed history runs in any case and
\* appends what positions.get(symbol) gave (0: None).
Portfolio_close_position_MovesAnyway(P, cfg, symbol, exit_date, exit_price, exit_reason) ==
  IF ~DictHas(P.positions, symbol)
  THEN [P EXCEPT !.closed_positions = Append(P.closed_positions, 0)]
  ELSE LET id == DictGet(P.positions, symbol)
           closed == Position_close_position(P.heap[id], exit_date, exit_price,
                                             exit_reason, Commission(cfg, P.heap[id]))
       IN [P EXCEPT !.heap = [P.heap EXCEPT ![id] = closed],
                    !.closed_positions = Append(P.closed_positions, id),
                    !.positions = DictDel(P.positions, symbol)]

\* Mutant of Portfolio_close_position: `del self.positions[symbol]` is missing.
Portfolio_close_position_NoDel(P, cfg, symbol, exit_date, exit_price, exit_reason) ==
  IF ~DictHas(P.positions, symbol)
  THEN P
  ELSE LET id == DictGet(P.positions, symbol)
           closed == Position_close_position(P.heap[id], exit_date, exit_price,
                                             exit_reason, Commission(cfg, P.heap[id]))
       IN [P EXCEPT !.heap = [P.heap EXCEPT ![id] = closed],
                    !.closed_positions = Append(P.closed_positions, id)]

\* Mutant of Portfolio_close_position: the closed position is inserted at the
\* head of the closed history, not appended.
Portfolio_close_position_Prepends(P, cfg, symbol, exit_date, exit_price, exit_reason) ==
  IF ~DictHas(P.positions, symbol)
  THEN P
  ELSE LET id == DictGet(P.positions, symbol)
           closed == Position_close_position(P.heap[id], exit_date, exit_price,
                                             exit_reason, Commission(cfg, P.heap[id]))
       IN [P EXCEPT !.heap = [P.heap EXCEPT ![id] = closed],
                    !.closed_positions = <<id>> \o P.closed_positions,
                    !.positions = DictDel(P.positions, symbol)]

\* Mutant of Portfolio_close_position: the append to the closed history is
\* missing, the closed position is only deleted from the open map.
Portfolio_close_position_NotKept(P, cfg, symbol, exit_date, exit_price, exit_reason) ==
  IF ~DictHas(P.positions, symbol)
  THEN P
  ELSE LET id == DictGet(P.positions, symbol)
           closed == Position_close_position(P.heap[id], exit_date, exit_price,
                                             exit_reason, Commission(cfg, P.heap[id]))
       IN [P EXCEPT !.heap = [P.heap EXCEPT ![id] = closed],
                    !.positions = DictDel(P.positions, symbol)]

\* Portfolio.close_position
Portfolio_close_position(P, cfg, symbol, exit_date, exit_price, exit_reason) ==
  IF ~DictHas(P.positions, symbol)
  THEN P
  ELSE LET id == DictGet(P.positions, symbol)
           closed == Position_close_position(P.heap[id], exit_date, exit_price,
                                             exit_reason, Commission(cfg, P.heap[id]))
       IN [P EXCEPT !.heap = [P.heap EXCEPT ![id] = closed],
                    !.closed_positions = Append(P.closed_positions, id),
                    !.positions = DictDel(P.positions, symbol)]

SetPF(P) ==
  /\ heap' = P.heap
  /\ positions' = P.positions
  /\ closed_positions' = P.closed_positions
  /\ cash' = P.cash

\* Mutant of add_trade: the record is inserted at the head of the list.
add_trade_AtFront(ts, trade) == <<trade>> \o ts

\* PerformanceMetrics.add_trade
add_trade(ts, trade) == Append(ts, trade)

\* ------------------------------------------------------ PerformanceMetrics

\* A float quotient a / b, kept exact as the pair of its terms; 0.0 is 0 / 1.
Quotient(num, den) == [num |-> num, den |-> den]

\* returns = [t['return_pct'] for t in trades]
Returns(ts) == [i \in 1..Len(ts) |-> ts[i].return_pct[1]]

\* sum(returns)
RECURSIVE SumSeq(_)
SumSeq(rs) == IF rs = <<>> THEN 0 ELSE Head(rs) + SumSeq(Tail(rs))

\* max(returns), min(returns)
MaxSeq(rs) == CHOOSE x \in {rs[i] : i \in 1..Len(rs)} : \A i \in 1..Len(rs) : x >= rs[i]

MinSeq(rs) == CHOOSE x \in {rs[i] : i \in 1..Len(rs)} : \A i \in 1..Len(rs) : x <= rs[i]

\* Mutant of Profitable: a return of exactly 0 counts as profitable.
Profitable_CountsZero(rs) == Len(SelectSeq(rs, LAMBDA r : r >= 0))

\* sum(1 for r in returns if r > 0)
Profitable(rs) == Len(SelectSeq(rs, LAMBDA r : r > 0))

\* The metrics of a group without trades.
ZeroMetrics ==
  [hit_rate |-> Quotient(0, 1), average_return |-> Quotient(0, 1), total_trades |-> 0,
   profitable_trades |-> 0, total_return |-> 0, best_trade |-> 0, worst_trade |-> 0]

\* Mutant of calculate_position_metrics: a group without trades is reported
\* with a hit rate of 100.
calculate_position_metrics_EmptyHitsAll(ts, position_type) ==
  IF ts = <<>>
  THEN [ZeroMetrics EXCEPT !.hit_rate = Quotient(100, 1)]
  ELSE LET returns == Returns(ts)
       IN [hit_rate |-> Quotient(Profitable(returns) * 100, Len(ts)),
           average_return |-> Quotient(SumSeq(returns), Len(returns)),
           total_trades |-> Len(ts),
           profitable_trades |-> Profitable(returns),
           total_return |-> SumSeq(returns),
           best_trade |-> MaxSeq(returns),
           worst_trade |-> MinSeq(returns)]

\* PerformanceMetrics._calculate_position_metrics
calculate_position_metrics(ts, position_type) ==
  IF ts = <<>>
  THEN ZeroMetrics
  ELSE LET returns == Returns(ts)
       IN [hit_rate |-> Quotient(Profitable(returns) * 100, Len(ts)),
           average_return |-> Quotient(SumSeq(returns), Len(returns)),
           total_trades |-> Len(ts),
           profitable_trades |-> Profitable(returns),
           total_return |-> SumSeq(returns),
           best_trade |-> MaxSeq(returns),
           worst_trade |-> MinSeq(returns)]

\* Mutant of calculate_overall_hit_rate: the mean of the long group's and the
\* short group's hit rates.
calculate_overall_hit_rate_MeanOfGroups(ts) ==
  LET l == calculate_position_metrics(SelectSeq(ts, LAMBDA t : t.position_type = "long"), "long").hit_rate
      h == calculate_position_metrics(SelectSeq(ts, LAMBDA t : t.position_type = "short"), "short").hit_rate
  IN Quotient(l.num * h.den + h.num * l.den, 2 * l.den * h.den)

\* PerformanceMetrics._calculate_overall_hit_rate
calculate_overall_hit_rate(ts) ==
  IF ts = <<>> THEN Quotient(0, 1)
  ELSE Quotient(Profitable(Returns(ts)) * 100, Len(ts))

\* PerformanceMetrics._calculate_overall_average_return
calculate_overall_average_return(ts) ==
  IF ts = <<>> THEN Quotient(0, 1)
  ELSE Quotient(SumSeq(Returns(ts)), Len(ts))

\* PerformanceMetrics._empty_results
empty_results ==
  [overall |-> [total_trades |-> 0],
   long_positions |-> ZeroMetrics,
   short_positions |-> ZeroMetrics,
   combined |-> [hit_rate |-> Quotient(0, 1), average_return |-> Quotient(0, 1)]]

\* PerformanceMetrics.calculate_metrics: what it returns for the trades held.
calculate_metrics(ts) ==
  IF ts = <<>>
  THEN empty_results
  ELSE LET long_trades == SelectSeq(ts, LAMBDA t : t.position_type = "long")
           short_trades == SelectSeq(ts, LAMBDA t : t.position_type = "short")
       IN [overall |-> [total_trades |-> Len(ts)],
           long_positions |-> calculate_position_metrics(long_trades, "long"),
           short_positions |-> calculate_position_metrics(short_trades, "short"),
           combined |-> [hit_rate |-> calculate_overall_hit_rate(ts),
                         average_return |-> calculate_overall_average_return(ts)]]

\* ------------------------------------------------------------------ engine

NoSignal == [date |-> 0, signal_type |-> "", price |-> 0]

NoStop == [symbol |-> "", id |-> 0, date |-> 0, outcome |-> ""]

\* EngulfingBacktester.__init__: a fresh Portfolio and PerformanceMetrics, an
\* empty signal cache.  run_backtest has not started.
Constructed ==
  /\ config \in Configs
  /\ heap = <<>>
  /\ positions = <<>>
  /\ closed_positions = <<>>
  /\ cash = config.initial_capital
  /\ trades = <<>>
  /\ signals_cache = {}
  /\ generate_calls = [s \in SymbolSet |-> <<>>]
  /\ all_stock_data = [s \in SymbolSet |-> {}]
  /\ trading_days = <<>>
  /\ day_idx = 0
  /\ day_close = [s \in SymbolSet |-> 0]
  /\ stop_queue = <<>>
  /\ sym_queue = <<>>
  /\ cur_symbol = ""
  /\ sig_left = 0
  /\ signal = NoSignal
  /\ stop_checked = NoStop
  /\ results = None
  /\ stock_files = [s \in SymbolSet |-> "valid"]
  /\ scenario = None
  /\ run_outcome = None
  /\ ret = None
  /\ calls = 0

\* run_backtest is about to start on an engine with the default configuration.
Init == Constructed /\ config = DefaultConfig /\ pc = "load"

\* The same with the configuration under which both stops can hold at once.
InitBothStops == Constructed /\ config = BothStopsConfig /\ pc = "load"

\* sorted(list(all_trading_days))
RECURSIVE SortedList(_)
SortedList(S) ==
  IF S = {} THEN <<>>
  ELSE LET m == CHOOSE x \in S : \A y \in S : x <= y
       IN <<m>> \o SortedList(S \ {m})

\* Mutant of TradingDays: the days every symbol has a row for (the
\* intersection of the series' dates).
TradingDays_Intersection(data) ==
  SortedList({d \in Days : \A s \in SymbolSet : d \in data[s]})

\* Mutant of TradingDays: the dates are walked from the latest to the earliest.
TradingDays_Descending(data) ==
  LET days == SortedList(UNION {data[s] : s \in SymbolSet})
  IN [i \in 1..Len(days) |-> days[Len(days) + 1 - i]]

\* The timeline: the dates of every symbol's rows, collected in a set, sorted.
TradingDays(data) == SortedList(UNION {data[s] : s \in SymbolSet})

\* What a file of the data directory may hold: the columns the engine reads,
\* all but the 'date' column, or all but the 'close' column.
FileKinds == {"valid", "no_date", "no_close"}

\* _load_stock_data: data['date'] raises KeyError when the file has no 'date'
\* column; no other column is looked at.
LoadRaises(files) == \E s \in SymbolSet : files[s] = "no_date"

\* run_backtest, loading: every file is read (a file may hold no row), the
\* timeline is built, and the line that prints trading_days[0] raises
\* IndexError when the timeline is empty.  A file that _load_stock_data cannot
\* read ends the run in the loading loop.
LoadData ==
  /\ pc = "load"
  /\ IF LoadRaises(stock_files)
     THEN /\ pc' = "load_failed"
          /\ UNCHANGED <<all_stock_data, trading_days, day_idx>>
     ELSE \E data \in [SymbolSet -> SUBSET Days] :
            /\ all_stock_data' = data
            /\ trading_days' = TradingDays(data)
            /\ IF TradingDays(data) = <<>>
               THEN pc' = "crashed" /\ day_idx' = 0
               ELSE pc' = "day" /\ day_idx' = 1
  /\ UNCHANGED <<config, portfolioVars, trades, signals_cache, generate_calls, day_close, stop_queue,
                 sym_queue, cur_symbol, sig_left, signal, stop_checked, results,
                 ret, calls, givenVars>>

\* current_date of the day loop
CurrentDate == trading_days[day_idx]

\* Mutant of HasRow: the day_data.empty test is left out.
HasRow_NoEmptyTest(symbol) == TRUE

\* stock_data[stock_data['date'].dt.date == current_date.date()]: whether the
\* symbol has a row dated today (day_data is not empty).
HasRow(symbol) == CurrentDate \in all_stock_data[symbol]

\* day_data.iloc[0]['close']: the closes the row may hold; it holds the one
\* read before when the row was read before on this day.
RowCloses(symbol) == IF day_close[symbol] # 0 THEN {day_close[symbol]} ELSE Prices

\* list(self.portfolio.positions.items()): the snapshot the stop loop iterates.
StopSnapshot(d) == d

\* Mutant of PassOrder: the signals are processed before the stops are checked.
PassOrder_SignalsFirst == <<"signals", "stops">>

\* The two calls of one turn of the day loop, in their order.
PassOrder == <<"stops", "signals">>

\* The call that follows `pass` in the turn ("end": none).
NextPass(pass) == IF pass = PassOrder[1] THEN PassOrder[2] ELSE "end"

\* A pass is entered: _check_all_stops_on_date takes its snapshot of the open
\* map, _process_all_signals_on_date starts to iterate all_stock_data.items().
EnterPass(pass) ==
  /\ pc' = pass
  /\ stop_queue' = IF pass = "stops" THEN StopSnapshot(positions) ELSE stop_queue
  /\ sym_queue' = IF pass = "signals" THEN Symbols ELSE sym_queue

\* The portfolio summary run_backtest adds to the metrics.
PortfolioSummary(P) ==
  [final_cash |-> P.cash, final_positions |-> Len(P.positions),
   total_closed_positions |-> Len(P.closed_positions)]

\* Mutant of ReportedTrades: the positions still open are liquidated at their
\* entry price and reported with the trades.
ReportedTrades_Liquidates(ts, P) ==
  ts \o [i \in 1..Len(P.positions) |->
           LET position == P.heap[P.positions[i][2]]
           IN to_dict(Position_close_position(position, position.entry_date,
                                              position.entry_price, "pattern_exit", 0))]

\* The trades the final calculate_metrics() goes over: those recorded during
\* the day loop; nothing between the loop and the call touches the portfolio.
ReportedTrades(ts, P) == ts

\* The turn is over (the day's rows go out of scope): the next day, or after
\* the last day the results.
EndOfDay ==
  /\ IF day_idx < Len(trading_days)
     THEN pc' = "day" /\ day_idx' = day_idx + 1 /\ results' = results
     ELSE /\ pc' = "done"
          /\ day_idx' = day_idx
          /\ results' = LET m == calculate_metrics(ReportedTrades(trades, PF))
                        IN Some([overall |-> m.overall,
                                 long_positions |-> m.long_positions,
                                 short_positions |-> m.short_positions,
                                 combined |-> m.combined,
                                 portfolio |-> PortfolioSummary(PF)])
  /\ day_close' = [s \in SymbolSet |-> 0]
  /\ UNCHANGED <<stop_queue, sym_queue>>

\* After `pass`: the next pass of the turn, or the end of the turn.
LeavePass(pass) ==
  IF NextPass(pass) = "end"
  THEN EndOfDay
  ELSE EnterPass(NextPass(pass)) /\ UNCHANGED <<day_idx, results, day_close>>

\* One turn of the day loop begins.
BeginDay ==
  /\ pc = "day"
  /\ EnterPass(PassOrder[1])
  /\ UNCHANGED <<config, portfolioVars, trades, signals_cache, generate_calls, all_stock_data,
                 trading_days, day_idx, day_close, cur_symbol, sig_left,
                 signal, stop_checked, results, ret, calls, givenVars>>

\* Mutant of StopOutcome: the day_data.empty test is left out, the stops are
\* tested on whatever price is at hand.
StopOutcome_NoEmptyTest(position, has_row, current_price) ==
  IF check_stop_loss(position, current_price) THEN "stop_loss"
  ELSE IF check_stop_win(position, current_price) THEN "stop_win"
  ELSE "hold"

\* Mutant of StopOutcome: each stop closes with the other stop's reason.
StopOutcome_SwapsReasons(position, has_row, current_price) ==
  IF ~has_row THEN "no_data"
  ELSE IF check_stop_loss(position, current_price) THEN "stop_win"
  ELSE IF check_stop_win(position, current_price) THEN "stop_loss"
  ELSE "hold"

\* Mutant of StopOutcome: stop-win is tested before stop-loss.
StopOutcome_WinFirst(position, has_row, current_price) ==
  IF ~has_row THEN "no_data"
  ELSE IF check_stop_win(position, current_price) THEN "stop_win"
  ELSE IF check_stop_loss(position, current_price) THEN "stop_loss"
  ELSE "hold"

\* What one turn of the stop loop decides for a position, given whether the
\* symbol has a row today and its close: stop-loss is tested first, stop-win
\* only when it is false.
StopOutcome(position, has_row, current_price) ==
  IF ~has_row THEN "no_data"
  ELSE IF check_stop_loss(position, current_price) THEN "stop_loss"
  ELSE IF check_stop_win(position, current_price) THEN "stop_win"
  ELSE "hold"

\* Mutant of RestOfSnapshot: the loop walks the open map itself by position, so
\* that the item after a closed one moves into its place and is passed over.
RestOfSnapshot_LiveMap(queue, closed) ==
  IF closed /\ Len(queue) > 1 THEN Tail(Tail(queue)) ELSE Tail(queue)

\* The items the for loop over the snapshot has still to visit after this one;
\* the snapshot is a list of its own, which a close does not touch.
RestOfSnapshot(queue, closed) == Tail(queue)

\* _check_all_stops_on_date, one item of the snapshot.
CheckStop ==
  /\ pc = "stops"
  /\ stop_queue # <<>>
  /\ \E current_price \in RowCloses(Head(stop_queue)[1]) :
       LET symbol == Head(stop_queue)[1]
           id == Head(stop_queue)[2]
           outcome == StopOutcome(heap[id], HasRow(symbol), current_price)
           P == IF outcome \in {"stop_loss", "stop_win"}
                THEN Portfolio_close_position(PF, config, symbol, CurrentDate, current_price, outcome)
                ELSE PF
       IN /\ SetPF(P)
          /\ trades' = IF outcome \in {"stop_loss", "stop_win"}
                       THEN add_trade(trades, to_dict(P.heap[id]))
                       ELSE trades
          /\ day_close' = IF HasRow(symbol)
                          THEN [day_close EXCEPT ![symbol] = current_price]
                          ELSE day_close
          /\ stop_checked' = [symbol |-> symbol, id |-> id, date |-> CurrentDate,
                              outcome |-> outcome]
          /\ stop_queue' = RestOfSnapshot(stop_queue, outcome \in {"stop_loss", "stop_win"})
  /\ UNCHANGED <<config, signals_cache, generate_calls, all_stock_data, trading_days, day_idx,
                 pc, sym_queue, cur_symbol, sig_left, signal, results, ret, calls, givenVars>>

\* _check_all_stops_on_date returns: its snapshot is exhausted.
EndStopPass ==
  /\ pc = "stops"
  /\ stop_queue = <<>>
  /\ LeavePass("stops")
  /\ stop_checked' = NoStop
  /\ UNCHANGED <<config, portfolioVars, trades, signals_cache, generate_calls, all_stock_data,
                 trading_days, cur_symbol, sig_left, signal, ret, calls, givenVars>>

\* Mutant of GenerateIfMissing: the `symbol not in self._signals_cache` test is
\* missing, the signals are generated on every day the symbol has a row.
GenerateIfMissing_Always(cache, log, symbol, stock_data) ==
  [cache |-> cache \cup {symbol},
   calls |-> [log EXCEPT ![symbol] = Append(@, stock_data)]]

\* if symbol not in self._signals_cache:
\*     self._signals_cache[symbol] = self.signal_generator.generate_signals(stock_data)
\* The generator is given the symbol's whole series.  What it returns is
\* fixed by that series; the model reads the rows of it dated today when the
\* date filter selects them (ProcessSignal), once per symbol and day.
GenerateIfMissing(cache, log, symbol, stock_data) ==
  IF symbol \notin cache
  THEN [cache |-> cache \cup {symbol},
        calls |-> [log EXCEPT ![symbol] = Append(@, stock_data)]]
  ELSE [cache |-> cache, calls |-> log]

\* EngulfingSignal.generate_signals on a series without its OHLCV columns:
\* validate_data fails, detect finds no pattern, and the frame returned has no
\* datetime 'date' column, so that signals['date'].dt raises AttributeError.
SignalsUnreadable(symbol) == stock_files[symbol] = "no_close"

\* _process_all_signals_on_date, the outer loop, entered when the rows of the
\* symbol before are exhausted: a symbol without a row today is skipped;
\* otherwise its signals are generated unless cached, and the rows dated today
\* are selected (sig_left of them may follow).  The selection raises on the
\* frame generated from a file without its price columns.
NextSymbol ==
  /\ pc = "signals"
  /\ sym_queue # <<>>
  /\ LET symbol == Head(sym_queue)
     IN IF ~HasRow(symbol)
        THEN /\ sig_left' = 0
             /\ UNCHANGED <<signals_cache, generate_calls, cur_symbol, day_close, pc>>
        ELSE /\ LET g == GenerateIfMissing(signals_cache, generate_calls, symbol,
                                          all_stock_data[symbol])
                IN signals_cache' = g.cache /\ generate_calls' = g.calls
             /\ cur_symbol' = symbol
             /\ IF SignalsUnreadable(symbol)
                THEN pc' = "crashed" /\ sig_left' = 0 /\ UNCHANGED day_close
                ELSE /\ sig_left' = MaxSignalsPerDay
                     /\ \E c \in RowCloses(symbol) :
                          day_close' = [day_close EXCEPT ![symbol] = c]
                     /\ UNCHANGED pc
  /\ sym_queue' = Tail(sym_queue)
  /\ signal' = NoSignal
  /\ UNCHANGED <<config, portfolioVars, trades, all_stock_data, trading_days,
                 day_idx, stop_queue, stop_checked, results, ret, calls, givenVars>>

\* Mutant of IsOpposite: every signal that is not of the position's own
\* direction counts as opposite.
IsOpposite_AnyOther(position_type, signal_type) ==
  \/ (position_type = "long" /\ signal_type # "bullish")
  \/ (position_type = "short" /\ signal_type # "bearish")

\* Mutant of IsOpposite: the comparison of the directions is inverted.
IsOpposite_Inverted(position_type, signal_type) ==
  \/ (position_type = "long" /\ signal_type = "bullish")
  \/ (position_type = "short" /\ signal_type = "bearish")

\* The test of the signal against the open position's direction.
IsOpposite(position_type, signal_type) ==
  \/ (position_type = "long" /\ signal_type = "bearish")
  \/ (position_type = "short" /\ signal_type = "bullish")

\* Mutant of SignalEffect: the opening branch is an `if`, not an `elif`, so the
\* signal that closed a position also opens one.
SignalEffect_Reverses(P, cfg, symbol, sig) ==
  LET Q == IF /\ DictHas(P.positions, symbol)
              /\ IsOpposite(P.heap[DictGet(P.positions, symbol)].position_type, sig.signal_type)
           THEN Portfolio_close_position(P, cfg, symbol, sig.date, sig.price, "pattern_exit")
           ELSE P
  IN IF ~has_position_in_stock(Q, symbol)
     THEN IF sig.signal_type = "bullish"
          THEN open_long_position(Q, cfg, symbol, sig.date, sig.price).pf
          ELSE IF sig.signal_type = "bearish"
               THEN open_short_position(Q, cfg, symbol, sig.date, sig.price).pf
               ELSE Q
     ELSE Q

\* The body of the signal loop: what one signal does to the portfolio.
SignalEffect(P, cfg, symbol, sig) ==
  IF DictHas(P.positions, symbol)
  THEN IF IsOpposite(P.heap[DictGet(P.positions, symbol)].position_type, sig.signal_type)
       THEN Portfolio_close_position(P, cfg, symbol, sig.date, sig.price, "pattern_exit")
       ELSE P
  ELSE IF ~has_position_in_stock(P, symbol)
       THEN IF sig.signal_type = "bullish"
            THEN open_long_position(P, cfg, symbol, sig.date, sig.price).pf
            ELSE IF sig.signal_type = "bearish"
                 THEN open_short_position(P, cfg, symbol, sig.date, sig.price).pf
                 ELSE P
       ELSE P

\* Mutant of SignalTrades: the pattern exit is not recorded.
SignalTrades_NotRecorded(P, Q, symbol, sig, ts) == ts

\* The trade the signal loop records: current_position.to_dict() after a
\* pattern exit.
SignalTrades(P, Q, symbol, sig, ts) ==
  IF /\ DictHas(P.positions, symbol)
     /\ IsOpposite(P.heap[DictGet(P.positions, symbol)].position_type, sig.signal_type)
  THEN add_trade(ts, to_dict(Q.heap[DictGet(P.positions, symbol)]))
  ELSE ts

\* _process_all_signals_on_date, one row of day_signals.iterrows().  The
\* signal's date is the current day (the date filter) and its price the close
\* of the symbol's row of that day.
ProcessSignal ==
  /\ pc = "signals"
  /\ sig_left > 0
  /\ \E t \in SignalTypes :
       LET sig == [date |-> CurrentDate, signal_type |-> t, price |-> day_close[cur_symbol]]
           Q == SignalEffect(PF, config, cur_symbol, sig)
       IN /\ Len(Q.heap) <= MaxPositions
          /\ signal' = sig
          /\ SetPF(Q)
          /\ trades' = SignalTrades(PF, Q, cur_symbol, sig, trades)
  /\ sig_left' = sig_left - 1
  /\ UNCHANGED <<config, signals_cache, generate_calls, all_stock_data, trading_days, day_idx,
                 day_close, pc, stop_queue, sym_queue, cur_symbol, stop_checked,
                 results, ret, calls, givenVars>>

\* _process_all_signals_on_date returns: every symbol has been visited and the
\* rows of the last one are exhausted.
EndSignalPass ==
  /\ pc = "signals"
  /\ sym_queue = <<>>
  /\ LeavePass("signals")
  /\ cur_symbol' = ""
  /\ sig_left' = 0
  /\ signal' = NoSignal
  /\ UNCHANGED <<config, portfolioVars, trades, signals_cache, generate_calls, all_stock_data,
                 trading_days, stop_checked, ret, calls, givenVars>>

Next ==
  \/ LoadData
  \/ BeginDay
  \/ CheckStop
  \/ EndStopPass
  \/ NextSymbol
  \/ ProcessSignal
  \/ EndSignalPass

\* One run of run_backtest on a freshly constructed engine.
Spec == Init /\ [][Next]_vars

SpecBothStops == InitBothStops /\ [][Next]_vars

\* The run under its scheduling: run_backtest is one sequential call that
\* nothing suspends, so a step that can be taken is taken.
FairSpec == Init /\ [][Next]_vars /\ WF_vars(Next)

\* ------------------------------------------------- runs on any directory

InitAnyFiles == Constructed /\ config = DefaultConfig /\ pc = "files"

\* The data directory is at hand: each symbol's file is of one of the kinds.
GiveFiles ==
  /\ pc = "files"
  /\ stock_files' \in [SymbolSet -> FileKinds]
  /\ pc' = "load"
  /\ UNCHANGED <<config, portfolioVars, trades, signals_cache, generate_calls,
                 all_stock_data, trading_days, day_idx, day_close, stop_queue, sym_queue,
                 cur_symbol, sig_left, signal, stop_checked, results, scenario,
                 run_outcome, ret, calls>>

NextAnyFiles ==
  \/ GiveFiles
  \/ Next

\* One run of run_backtest on a data directory whose files may lack columns.
SpecAnyFiles == InitAnyFiles /\ [][NextAnyFiles]_vars

\* ------------------------------------------------- whole runs, compared

\* One row of a symbol's series on one day: its close and the signal the
\* generator gives for it ("": none); close 0 stands for no row on that day.
NoRow == [close |-> 0, signal_type |-> ""]

RowValues ==
  {NoRow} \cup {[close |-> c, signal_type |-> t] : c \in Prices, t \in {"", "bullish", "bearish"}}

\* The data directory: every symbol's series, with its signals.
Datasets == [SymbolSet -> [Days -> RowValues]]

\* os.listdir(data_directory): the files in an arbitrary order.
Listings ==
  {l \in [1..Len(Symbols) -> SymbolSet] : \A i, j \in 1..Len(Symbols) : l[i] = l[j] => i = j}

\* The place of a file name in lexicographic order.
FileRank(symbol) == CHOOSE i \in 1..Len(Symbols) : Symbols[i] = symbol

\* Mutant of SortFiles: stock_files.sort() is missing.
SortFiles_AsListed(listing) == listing

\* stock_files.sort()
SortFiles(listing) ==
  [i \in 1..Len(listing) |->
     CHOOSE f \in {listing[k] : k \in 1..Len(listing)} :
       Cardinality({g \in {listing[k] : k \in 1..Len(listing)} : FileRank(g) < FileRank(f)}) = i - 1]

\* The portfolio and the trades a run starts with.
RunStart(cfg) ==
  [pf |-> [heap |-> <<>>, positions |-> <<>>, closed_positions |-> <<>>,
           cash |-> cfg.initial_capital],
   trades |-> <<>>]

\* _check_all_stops_on_date over the snapshot, on the rows of day d.
RECURSIVE RunStops(_, _, _, _, _)
RunStops(R, cfg, snapshot, data, d) ==
  IF snapshot = <<>> THEN R
  ELSE LET symbol == Head(snapshot)[1]
           id == Head(snapshot)[2]
           row == data[symbol][d]
           reason == StopOutcome(R.pf.heap[id], row # NoRow, row.close)
           P == IF reason \in {"stop_loss", "stop_win"}
                THEN Portfolio_close_position(R.pf, cfg, symbol, d, row.close, reason)
                ELSE R.pf
           ts == IF reason \in {"stop_loss", "stop_win"}
                 THEN add_trade(R.trades, to_dict(P.heap[id]))
                 ELSE R.trades
       IN RunStops([pf |-> P, trades |-> ts], cfg, Tail(snapshot), data, d)

\* _process_all_signals_on_date over all_stock_data.items(), on the rows of
\* day d; a row carries at most one signal.
RECURSIVE RunSignals(_, _, _, _, _)
RunSignals(R, cfg, queue, data, d) ==
  IF queue = <<>> THEN R
  ELSE LET symbol == Head(queue)
           row == data[symbol][d]
           sig == [date |-> d, signal_type |-> row.signal_type, price |-> row.close]
           Q == SignalEffect(R.pf, cfg, symbol, sig)
       IN IF row = NoRow \/ row.signal_type = ""
          THEN RunSignals(R, cfg, Tail(queue), data, d)
          ELSE RunSignals([pf |-> Q, trades |-> SignalTrades(R.pf, Q, symbol, sig, R.trades)],
                          cfg, Tail(queue), data, d)

\* The day loop of run_backtest.
RECURSIVE RunDays(_, _, _, _, _)
RunDays(R, cfg, order, data, days) ==
  IF days = <<>> THEN R
  ELSE LET afterStops == RunStops(R, cfg, StopSnapshot(R.pf.positions), data, Head(days))
           afterSignals == RunSignals(afterStops, cfg, order, data, Head(days))
       IN RunDays(afterSignals, cfg, order, data, Tail(days))

\* run_backtest as a function of what it is given: the listing of the data
\* directory, the series and the configuration.  It raises on an empty
\* timeline; otherwise it returns the metrics with the portfolio summary, and
\* leaves the trades and the open positions behind.
run_backtest(cfg, listing, data) ==
  LET order == SortFiles(listing)
      days == SortedList({d \in Days : \E s \in SymbolSet : data[s][d] # NoRow})
      R == RunDays(RunStart(cfg), cfg, order, data, days)
  IN IF days = <<>>
     THEN [raised |-> TRUE, trades |-> <<>>, open |-> <<>>, results |-> None]
     ELSE [raised |-> FALSE,
           trades |-> R.trades,
           open |-> [i \in 1..Len(R.pf.positions) |-> R.pf.heap[R.pf.positions[i][2]]],
           results |-> Some([metrics |-> calculate_metrics(R.trades),
                             portfolio |-> PortfolioSummary(R.pf)])]

\* The data directory without the rows of the symbols other than `symbol`.
OnlySymbol(data, symbol) ==
  [s \in SymbolSet |-> IF s = symbol THEN data[s] ELSE [d \in Days |-> NoRow]]

InitRuns == Constructed /\ config = DefaultConfig /\ pc = "runs"

\* A data directory is at hand, and the order in which os.listdir will give
\* its files to each of two runs.
GiveScenario ==
  /\ pc = "runs"
  /\ scenario = None
  /\ \E data \in Datasets, first \in Listings, second \in Listings :
       scenario' = Some([data |-> data, first |-> first, second |-> second])
  /\ UNCHANGED <<config, portfolioVars, trades, pc, signals_cache, generate_calls,
                 all_stock_data, trading_days, day_idx, day_close, stop_queue, sym_queue,
                 cur_symbol, sig_left, signal, stop_checked, results, stock_files,
                 run_outcome, ret, calls>>

\* Two freshly constructed engines run on the directory.
RunCompared ==
  /\ pc = "runs"
  /\ scenario # None
  /\ run_outcome = None
  /\ LET sc == scenario[1]
     IN run_outcome' =
          Some([first |-> run_backtest(config, sc.first, sc.data),
                second |-> run_backtest(config, sc.second, sc.data)])
  /\ UNCHANGED <<config, portfolioVars, trades, pc, signals_cache, generate_calls,
                 all_stock_data, trading_days, day_idx, day_close, stop_queue, sym_queue,
                 cur_symbol, sig_left, signal, stop_checked, results, stock_files,
                 scenario, ret, calls>>

NextRuns ==
  \/ GiveScenario
  \/ RunCompared

SpecRuns == InitRuns /\ [][NextRuns]_vars

InitApart == Constructed /\ config = DefaultConfig /\ pc = "apart"

\* A data directory is at hand, and the order in which os.listdir gives its
\* files.
GiveDirectory ==
  /\ pc = "apart"
  /\ scenario = None
  /\ \E data \in Datasets, listing \in Listings :
       scenario' = Some([data |-> data, listing |-> listing])
  /\ UNCHANGED <<config, portfolioVars, trades, pc, signals_cache, generate_calls,
                 all_stock_data, trading_days, day_idx, day_close, stop_queue, sym_queue,
                 cur_symbol, sig_left, signal, stop_checked, results, stock_files,
                 run_outcome, ret, calls>>

\* One engine runs on the directory, and for each symbol one more on the
\* directory holding that symbol's rows only.
RunApart ==
  /\ pc = "apart"
  /\ scenario # None
  /\ run_outcome = None
  /\ LET sc == scenario[1]
     IN run_outcome' =
          Some([whole |-> run_backtest(config, sc.listing, sc.data),
                alone |-> [s \in SymbolSet |->
                             run_backtest(config, sc.listing, OnlySymbol(sc.data, s))]])
  /\ UNCHANGED <<config, portfolioVars, trades, pc, signals_cache, generate_calls,
                 all_stock_data, trading_days, day_idx, day_close, stop_queue, sym_queue,
                 cur_symbol, sig_left, signal, stop_checked, results, stock_files,
                 scenario, ret, calls>>

NextApart ==
  \/ GiveDirectory
  \/ RunApart

SpecApart == InitApart /\ [][NextApart]_vars

\* ------------------------------------------------- the Portfolio API alone

\* A client holds a fresh Portfolio and calls its methods in any order.
InitPortfolio == Constructed /\ pc = "portfolio"

\* What the client sees of a call: none of the three methods has a raise
\* statement, and a price is never 0, so each returns.
Returned(call, symbol, value) ==
  Some([call |-> call, symbol |-> symbol, value |-> value, raised |-> FALSE])

CallOpenLong ==
  /\ pc = "portfolio"
  /\ calls < MaxCalls
  /\ \E symbol \in SymbolSet, date \in Days, price \in Prices :
       LET r == open_long_position(PF, config, symbol, date, price)
       IN /\ Len(r.pf.heap) <= MaxPositions
          /\ SetPF(r.pf)
          /\ ret' = Returned("open_long_position", symbol, Some(r.ret))
  /\ calls' = calls + 1
  /\ UNCHANGED <<config, trades, pc, engineVars>>

CallOpenShort ==
  /\ pc = "portfolio"
  /\ calls < MaxCalls
  /\ \E symbol \in SymbolSet, date \in Days, price \in Prices :
       LET r == open_short_position(PF, config, symbol, date, price)
       IN /\ Len(r.pf.heap) <= MaxPositions
          /\ SetPF(r.pf)
          /\ ret' = Returned("open_short_position", symbol, Some(r.ret))
  /\ calls' = calls + 1
  /\ UNCHANGED <<config, trades, pc, engineVars>>

CallClose ==
  /\ pc = "portfolio"
  /\ calls < MaxCalls
  /\ \E symbol \in SymbolSet, date \in Days, price \in Prices, reason \in ExitReasons :
       /\ SetPF(Portfolio_close_position(PF, config, symbol, date, price, reason))
       /\ ret' = Returned("close_position", symbol, None)
  /\ calls' = calls + 1
  /\ UNCHANGED <<config, trades, pc, engineVars>>

\* Mutant of MarkToMarket: a Short is valued as a Long is.
MarkToMarket_ShortAsLong(position, current_price) == position.shares * current_price

\* What one open position adds to the total at a current price.
MarkToMarket(position, current_price) ==
  IF position.position_type = "long"
  THEN position.shares * current_price
  ELSE position.entry_value - (position.shares * current_price)

\* The current_prices dicts a client may pass: a price for some of the symbols.
CurrentPrices == UNION {[keys -> Prices] : keys \in SUBSET SymbolSet}

\* Portfolio.get_total_value: the loop over positions.items(), from 0.
get_total_value(P, current_prices) ==
  SumSeq([i \in 1..Len(P.positions) |->
            IF P.positions[i][1] \in DOMAIN current_prices
            THEN MarkToMarket(P.heap[P.positions[i][2]], current_prices[P.positions[i][1]])
            ELSE 0])

CallGetTotalValue ==
  /\ pc = "portfolio"
  /\ calls < MaxCalls
  /\ \E current_prices \in CurrentPrices :
       ret' = Some([call |-> "get_total_value", symbol |-> "",
                    value |-> Some(get_total_value(PF, current_prices)),
                    raised |-> FALSE, current_prices |-> current_prices])
  /\ calls' = calls + 1
  /\ UNCHANGED <<config, portfolioVars, trades, pc, engineVars>>

NextPortfolio ==
  \/ CallOpenLong
  \/ CallOpenShort
  \/ CallClose
  \/ CallGetTotalValue

SpecPortfolio == InitPortfolio /\ [][NextPortfolio]_vars

\* -------------------------------------------------- the Position API alone

\* The Position objects a client may construct, sized as the Portfolio sizes them.
FreshPositions ==
  { Position(Symbols[1], t, date, price, PositionValue(DefaultConfig) \div price,
             PositionValue(DefaultConfig), DefaultConfig.stop_loss_pct,
             DefaultConfig.stop_win_pct) :
      t \in {"long", "short"}, date \in Days, price \in Prices }

\* Two more a client may construct: a Long of 10 shares entered at 100 and a
\* Short of 20 shares entered at 50, each of entry value 1000.
ExamplePositions ==
  { Position(Symbols[1], "long", 1, 100, 10, 1000, DefaultConfig.stop_loss_pct,
             DefaultConfig.stop_win_pct),
    Position(Symbols[1], "short", 1, 50, 20, 1000, DefaultConfig.stop_loss_pct,
             DefaultConfig.stop_win_pct) }

\* The exit prices a client may pass to close_position.
ClosePrices == Prices \cup {94, 53}

\* A client holds one Position, outside any Portfolio, and calls its
\* close_position any number of times.
InitPosition ==
  /\ config = DefaultConfig
  /\ heap \in {<<p>> : p \in FreshPositions \cup ExamplePositions}
  /\ positions = <<>>
  /\ closed_positions = <<>>
  /\ cash = config.initial_capital
  /\ trades = <<>>
  /\ signals_cache = {}
  /\ generate_calls = [s \in SymbolSet |-> <<>>]
  /\ all_stock_data = [s \in SymbolSet |-> {}]
  /\ trading_days = <<>>
  /\ day_idx = 0
  /\ day_close = [s \in SymbolSet |-> 0]
  /\ stop_queue = <<>>
  /\ sym_queue = <<>>
  /\ cur_symbol = ""
  /\ sig_left = 0
  /\ signal = NoSignal
  /\ stop_checked = NoStop
  /\ results = None
  /\ stock_files = [s \in SymbolSet |-> "valid"]
  /\ scenario = None
  /\ run_outcome = None
  /\ ret = None
  /\ calls = 0
  /\ pc = "position"

\* position.close_position(...): it returns normally whatever the status was.
CallPositionClose ==
  /\ pc = "position"
  /\ calls < MaxCalls
  /\ \E date \in Days, price \in ClosePrices, reason \in ExitReasons, commission \in {0, Commission(config, heap[1])} :
       /\ heap' = [heap EXCEPT ![1] = Position_close_position(heap[1], date, price, reason, commission)]
       /\ ret' = Some([call |-> "Position.close_position", before |-> heap[1].status,
                       raised |-> FALSE])
  /\ calls' = calls + 1
  /\ UNCHANGED <<config, positions, closed_positions, cash, trades, pc, engineVars>>

\* The prices a client may pass to the stop predicates: for the entry prices
\* 80 and 100, the thresholds of both stops (76, 84, 95, 105 and 64, 80, 96,
\* 120) and prices on either side of them.
StopCheckPrices == {64, 76, 80, 84, 94, 95, 96, 100, 105, 120}

\* What the client sees of a call of a stop predicate: neither has a raise
\* statement, each returns a bool.
Checked(call, price, value) ==
  Some([call |-> call, price |-> price, value |-> value, raised |-> FALSE])

\* position.check_stop_loss(price): nothing is assigned.
CallCheckStopLoss ==
  /\ pc = "position"
  /\ calls < MaxCalls
  /\ \E price \in StopCheckPrices :
       ret' = Checked("check_stop_loss", price, check_stop_loss(heap[1], price))
  /\ calls' = calls + 1
  /\ UNCHANGED <<config, portfolioVars, trades, pc, engineVars>>

\* position.check_stop_win(price): nothing is assigned.
CallCheckStopWin ==
  /\ pc = "position"
  /\ calls < MaxCalls
  /\ \E price \in StopCheckPrices :
       ret' = Checked("check_stop_win", price, check_stop_win(heap[1], price))
  /\ calls' = calls + 1
  /\ UNCHANGED <<config, portfolioVars, trades, pc, engineVars>>

NextPosition ==
  \/ CallPositionClose
  \/ CallCheckStopLoss
  \/ CallCheckStopWin

SpecPosition == InitPosition /\ [][NextPosition]_vars

\* ---------------------------------------- the PerformanceMetrics API alone

\* The trade records a client may add: to_dict of a Long or Short entered on
\* day 1 at 80 or 100 and closed on day 1 at 80 or 100, with or without the
\* commission; their return_pct is positive, zero or negative.
MetricsTrades ==
  { to_dict(Position_close_position(p, 1, price, "pattern_exit", commission)) :
      p \in {q \in FreshPositions : q.entry_date = 1},
      price \in Prices,
      commission \in {0, (PositionValue(DefaultConfig) * DefaultCommissionBps) \div 10000} }

\* A client holds a fresh PerformanceMetrics and calls add_trade and
\* calculate_metrics in any order.
InitPerformance == Constructed /\ config = DefaultConfig /\ pc = "performance"

\* The trade records a client may add before it asks for the statistics by
\* symbol: to_dict of a Long or Short of either symbol entered on day 1 at 80
\* or 100 and closed on day 1 at 80 or 100 without commission.
SymbolTrades ==
  { to_dict(Position_close_position(
              Position(symbol, t, 1, entry, PositionValue(DefaultConfig) \div entry,
                       PositionValue(DefaultConfig), DefaultConfig.stop_loss_pct,
                       DefaultConfig.stop_win_pct),
              1, price, "pattern_exit", 0)) :
      symbol \in SymbolSet, t \in {"long", "short"}, entry \in Prices, price \in Prices }

\* The records at the client's hand.
TradesAtHand == IF pc = "statistics" THEN SymbolTrades ELSE MetricsTrades

\* performance.add_trade(trade)
CallAddTrade ==
  /\ pc \in {"performance", "statistics"}
  /\ calls < MaxMetricsCalls
  /\ \E trade \in TradesAtHand : trades' = add_trade(trades, trade)
  /\ ret' = Some([call |-> "add_trade", raised |-> FALSE])
  /\ calls' = calls + 1
  /\ UNCHANGED <<config, portfolioVars, pc, engineVars>>

\* Mutant of PerformanceMetrics_calculate_metrics: the trades reported are
\* dropped from the list.
PerformanceMetrics_calculate_metrics_Consumes(ts) ==
  [trades |-> <<>>, ret |-> calculate_metrics(ts)]

\* performance.calculate_metrics() as a method: the trade list it leaves and
\* the value it returns.  Nothing in it assigns to self.trades, and on the
\* records of MetricsTrades nothing in it raises.
PerformanceMetrics_calculate_metrics(ts) ==
  [trades |-> ts, ret |-> calculate_metrics(ts)]

CallCalculateMetrics ==
  /\ pc = "performance"
  /\ calls < MaxMetricsCalls
  /\ LET r == PerformanceMetrics_calculate_metrics(trades)
     IN /\ trades' = r.trades
        /\ ret' = Some([call |-> "calculate_metrics", value |-> r.ret, raised |-> FALSE])
  /\ calls' = calls + 1
  /\ UNCHANGED <<config, portfolioVars, pc, engineVars>>

NextPerformance ==
  \/ CallAddTrade
  \/ CallCalculateMetrics

SpecPerformance == InitPerformance /\ [][NextPerformance]_vars

\* trades_df['symbol'].unique(): the symbols in the order of their first trade.
UniqueSymbols(ts) ==
  LET firsts == {i \in 1..Len(ts) : \A j \in 1..(i - 1) : ts[j].symbol # ts[i].symbol}
      order == SortedList(firsts)
  IN [k \in 1..Len(order) |-> ts[order[k]].symbol]

\* Mutant of SymbolTradesOf: the rows are not filtered by the symbol.
SymbolTradesOf_AllRows(ts, symbol) == ts

\* trades_df[trades_df['symbol'] == symbol]
SymbolTradesOf(ts, symbol) == SelectSeq(ts, LAMBDA t : t.symbol = symbol)

\* The dict appended for one symbol.
SymbolStatistics(ts, symbol) ==
  LET returns == Returns(SymbolTradesOf(ts, symbol))
      total_trades == Len(returns)
      profitable_trades == Len(SelectSeq(returns, LAMBDA r : r > 0))
  IN [symbol |-> symbol,
      total_trades |-> total_trades,
      profitable_trades |-> profitable_trades,
      hit_rate |-> IF total_trades > 0 THEN Quotient(profitable_trades * 100, total_trades)
                   ELSE Quotient(0, 1),
      average_return |-> Quotient(SumSeq(returns), Len(returns)),
      total_return |-> SumSeq(returns),
      best_trade |-> MaxSeq(returns),
      worst_trade |-> MinSeq(returns)]

\* PerformanceMetrics._calculate_symbol_statistics
calculate_symbol_statistics(ts) ==
  IF ts = <<>> THEN <<>>
  ELSE [k \in 1..Len(UniqueSymbols(ts)) |-> SymbolStatistics(ts, UniqueSymbols(ts)[k])]

\* A client holds a fresh PerformanceMetrics and calls add_trade and
\* _calculate_symbol_statistics in any order.
InitStatistics == Constructed /\ config = DefaultConfig /\ pc = "statistics"

CallSymbolStatistics ==
  /\ pc = "statistics"
  /\ calls < MaxMetricsCalls
  /\ ret' = Some([call |-> "_calculate_symbol_statistics",
                  value |-> calculate_symbol_statistics(trades), raised |-> FALSE])
  /\ calls' = calls + 1
  /\ UNCHANGED <<config, portfolioVars, trades, pc, engineVars>>

NextStatistics ==
  \/ CallAddTrade
  \/ CallSymbolStatistics

SpecStatistics == InitStatistics /\ [][NextStatistics]_vars

\* ------------------------------------- the metrics in float64 arithmetic

\* The significand of a float64: 53 bits, the leading one included.
Precision == 53

Zeros(n) == [i \in 1..n |-> 0]

\* The four bits of a hexadecimal digit, and the 52 bits of thirteen of them.
HexDigit(h) == <<(h \div 8) % 2, (h \div 4) % 2, (h \div 2) % 2, h % 2>>

RECURSIVE HexBits(_)
HexBits(hs) == IF hs = <<>> THEN <<>> ELSE HexDigit(Head(hs)) \o HexBits(Tail(hs))

\* The positive float64 that float.hex() writes 0x1.<hs>p+<exp>: its value is
\* the sum of bits[i] * 2^(exp - i + 1).
Double(exp, hs) == [exp |-> exp, bits |-> <<1>> \o HexBits(hs)]

\* Whether a + b on bit strings of one length carries out of the string
\* (generates), and whether it would pass a carry on (propagates); by halves.
RECURSIVE CarryOf(_, _)
CarryOf(a, b) ==
  IF Len(a) = 0 THEN [generates |-> FALSE, propagates |-> TRUE]
  ELSE IF Len(a) = 1
  THEN [generates |-> a[1] + b[1] = 2, propagates |-> a[1] + b[1] = 1]
  ELSE LET half == Len(a) \div 2
           high == CarryOf(SubSeq(a, 1, half), SubSeq(b, 1, half))
           low == CarryOf(SubSeq(a, half + 1, Len(a)), SubSeq(b, half + 1, Len(b)))
       IN [generates |-> high.generates \/ (high.propagates /\ low.generates),
           propagates |-> high.propagates /\ low.propagates]

\* The carry into bit i of a + b: what the bits below it generate.
CarryInto(a, b, i) ==
  IF CarryOf(SubSeq(a, i + 1, Len(a)), SubSeq(b, i + 1, Len(b))).generates THEN 1 ELSE 0

\* a + b on bit strings of one length: the sum has one bit more.
AddBits(a, b) ==
  <<CarryInto(a, b, 0)>> \o [i \in 1..Len(a) |-> (a[i] + b[i] + CarryInto(a, b, i)) % 2]

\* Round to nearest, ties to even: a bit string with a leading 1, longer than
\* the significand, whose first bit weighs 2^exp; `sticky` tells of a nonzero
\* rest beyond the string.
RoundToNearestEven(bits, exp, sticky) ==
  LET head == SubSeq(bits, 1, Precision)
      guard == bits[Precision + 1]
      rest == sticky \/ \E i \in (Precision + 2)..Len(bits) : bits[i] = 1
      up == guard = 1 /\ (rest \/ head[Precision] = 1)
      raised == AddBits(head, Zeros(Precision - 1) \o <<1>>)
  IN IF ~up THEN [exp |-> exp, bits |-> head]
     ELSE IF raised[1] = 1 THEN [exp |-> exp + 1, bits |-> SubSeq(raised, 1, Precision)]
     ELSE [exp |-> exp, bits |-> Tail(raised)]

\* x + y in float64, for positive x and y.
FAdd(x, y) ==
  LET hi == IF x.exp >= y.exp THEN x ELSE y
      lo == IF x.exp >= y.exp THEN y ELSE x
      d == hi.exp - lo.exp
      sum == AddBits(hi.bits \o Zeros(d + 1), Zeros(d) \o lo.bits \o <<0>>)
  IN IF sum[1] = 1 THEN RoundToNearestEven(sum, hi.exp + 1, FALSE)
     ELSE RoundToNearestEven(Tail(sum), hi.exp, FALSE)

\* 2^k modulo n, by halving k.
RECURSIVE Pow2Mod(_, _)
Pow2Mod(k, n) ==
  IF k = 0 THEN 1 % n
  ELSE IF k % 2 = 1 THEN (2 * Pow2Mod(k - 1, n)) % n
  ELSE (Pow2Mod(k \div 2, n) * Pow2Mod(k \div 2, n)) % n

\* The number a bit string writes, modulo n; by halves.
RECURSIVE ValueMod(_, _)
ValueMod(bits, n) ==
  IF Len(bits) = 0 THEN 0
  ELSE IF Len(bits) = 1 THEN bits[1] % n
  ELSE LET half == Len(bits) \div 2
       IN (ValueMod(SubSeq(bits, 1, half), n) * Pow2Mod(Len(bits) - half, n)
           + ValueMod(SubSeq(bits, half + 1, Len(bits)), n)) % n

\* x / n in float64, for positive x and a count n from 1 to 15: the long
\* division of the significand, carried eight bits on; bit i of the quotient
\* comes from the remainder of the bits before it.
FDivN(x, n) ==
  LET dividend == x.bits \o Zeros(8)
      len == Len(dividend)
      quot == [i \in 1..len |->
                 (2 * ValueMod(SubSeq(dividend, 1, i - 1), n) + dividend[i]) \div n]
      first == CHOOSE i \in 1..len : quot[i] = 1 /\ \A j \in 1..(i - 1) : quot[j] = 0
  IN RoundToNearestEven(SubSeq(quot, first, len), x.exp - (first - 1),
                        ValueMod(dividend, n) # 0)

\* 0.0: the least exponent field and no bit set.
FZero == [exp |-> 0 - 1023, bits |-> Zeros(Precision)]

\* x < y for float64 that are not negative.
FLess(x, y) ==
  \/ x.exp < y.exp
  \/ /\ x.exp = y.exp
     /\ \E i \in 1..Precision :
          x.bits[i] < y.bits[i] /\ \A j \in 1..(i - 1) : x.bits[j] = y.bits[j]

\* The sum numpy's add.reduce gives for fewer than eight float64: added one
\* by one from the first.
RECURSIVE FSum(_)
FSum(xs) == IF Len(xs) = 1 THEN xs[1] ELSE FAdd(FSum(SubSeq(xs, 1, Len(xs) - 1)), xs[Len(xs)])

\* np.mean(returns)
np_mean(xs) == FDivN(FSum(xs), Len(xs))

\* max(returns) and min(returns)
FMax(xs) == xs[CHOOSE i \in 1..Len(xs) : \A j \in 1..Len(xs) : ~FLess(xs[i], xs[j])]

FMin(xs) == xs[CHOOSE i \in 1..Len(xs) : \A j \in 1..Len(xs) : ~FLess(xs[j], xs[i])]

\* The return_pct Position.close_position computes, as the float64 it is, for
\* the trades that gain: a Long from 80 to 100 without and with the commission
\* (25.0, 24.9) and a Short from 100 to 80 (20.0, 19.900000000000002).
ReturnPctFloat ==
  [h \in {2500, 2490, 2000, 1990} |->
     CASE h = 2500 -> Double(4, <<9, 0, 0, 0, 0, 0, 0, 0, 0, 0, 0, 0, 0>>)
       [] h = 2490 -> Double(4, <<8, 14, 6, 6, 6, 6, 6, 6, 6, 6, 6, 6, 6>>)
       [] h = 2000 -> Double(4, <<4, 0, 0, 0, 0, 0, 0, 0, 0, 0, 0, 0, 0>>)
       [] h = 1990 -> Double(4, <<3, 14, 6, 6, 6, 6, 6, 6, 6, 6, 6, 6, 7>>)]

\* The trade records with a gain, their return_pct a float64.
FloatTrades ==
  { [t EXCEPT !.return_pct = Some(ReturnPctFloat[t.return_pct[1]])] :
      t \in {u \in MetricsTrades : u.return_pct[1] \in DOMAIN ReturnPctFloat} }

\* _calculate_position_metrics on trades that gain, in float64: the counts,
\* the mean, the maximum and the minimum of the returns.
calculate_position_metrics_float64(ts) ==
  IF ts = <<>>
  THEN [average_return |-> FZero, total_trades |-> 0, profitable_trades |-> 0,
        best_trade |-> FZero, worst_trade |-> FZero]
  ELSE LET returns == [i \in 1..Len(ts) |-> ts[i].return_pct[1]]
       IN [average_return |-> np_mean(returns),
           total_trades |-> Len(ts),
           profitable_trades |-> Cardinality({i \in 1..Len(ts) : FLess(FZero, returns[i])}),
           best_trade |-> FMax(returns),
           worst_trade |-> FMin(returns)]

\* A client holds a fresh PerformanceMetrics, adds trades that gained and asks
\* for the metrics of the two groups.
InitFloat64 == Constructed /\ config = DefaultConfig /\ pc = "float64"

CallAddGain ==
  /\ pc = "float64"
  /\ calls < MaxMetricsCalls
  /\ \E trade \in FloatTrades : trades' = add_trade(trades, trade)
  /\ ret' = Some([call |-> "add_trade", raised |-> FALSE])
  /\ calls' = calls + 1
  /\ UNCHANGED <<config, portfolioVars, pc, engineVars>>

CallGroupMetrics ==
  /\ pc = "float64"
  /\ calls < MaxMetricsCalls
  /\ ret' = Some([call |-> "_calculate_position_metrics",
                  value |-> [long_positions |->
                               calculate_position_metrics_float64(
                                 SelectSeq(trades, LAMBDA t : t.position_type = "long")),
                             short_positions |->
                               calculate_position_metrics_float64(
                                 SelectSeq(trades, LAMBDA t : t.position_type = "short"))],
                  raised |-> FALSE])
  /\ calls' = calls + 1
  /\ UNCHANGED <<config, portfolioVars, trades, pc, engineVars>>

NextFloat64 ==
  \/ CallAddGain
  \/ CallGroupMetrics

SpecFloat64 == InitFloat64 /\ [][NextFloat64]_vars

\* ------------------------------------------------------------------ claims

\* The symbols with at least one data row.
SymbolsWithData == {s \in SymbolSet : all_stock_data[s] # {}}

\* C1: at every point of a run the open map holds at most one Position per
\* symbol, every symbol in it has at least one data row, and the number of
\* open positions is at most the number of symbols with data.
C1_OnePositionPerSymbol ==
  /\ \A i, j \in 1..Len(positions) : positions[i][1] = positions[j][1] => i = j
  /\ \A i \in 1..Len(positions) :
       /\ positions[i][1] \in SymbolsWithData
       /\ positions[i][2] \in 1..Len(heap)
       /\ heap[positions[i][2]].symbol = positions[i][1]
  /\ Len(positions) <= Cardinality(SymbolsWithData)

\* C1, its case: every symbol with data holds a position, in the signal pass.
C1_Witness ==
  /\ pc = "signals"
  /\ Len(positions) = 2
  /\ Cardinality(SymbolsWithData) = 2

\* C2: on every trading day the stop pass is over before any signal of the day
\* is processed, so that the position a stop check handles was entered on an
\* earlier day: a position opened by a signal of day D is never stop-checked
\* on day D.
C2_StopsBeforeSignals ==
  /\ pc = "stops" =>
       /\ signal = NoSignal
       /\ \A i \in 1..Len(stop_queue) : heap[stop_queue[i][2]].entry_date < CurrentDate
  /\ pc = "signals" => stop_queue = <<>> /\ stop_checked = NoStop
  /\ stop_checked # NoStop =>
       heap[stop_checked.id].entry_date < stop_checked.date

\* C2, its case: a stop check has handled a position and closed it.
C2_Witness ==
  /\ pc = "stops"
  /\ stop_checked.outcome = "stop_win"
  /\ heap[stop_checked.id].entry_date < stop_checked.date

\* C3: a position whose price of the day satisfies both check_stop_loss and
\* check_stop_win is closed once, with exit reason stop_loss.
C3_StopLossWins ==
  (/\ stop_checked # NoStop
   /\ day_close[stop_checked.symbol] # 0
   /\ check_stop_loss(heap[stop_checked.id], day_close[stop_checked.symbol])
   /\ check_stop_win(heap[stop_checked.id], day_close[stop_checked.symbol]))
  => /\ heap[stop_checked.id].status = "closed"
     /\ heap[stop_checked.id].exit_reason = Some("stop_loss")
     /\ heap[stop_checked.id].exit_date = Some(stop_checked.date)
     /\ Cardinality({k \in 1..Len(closed_positions) :
                       closed_positions[k] = stop_checked.id}) = 1
     /\ Cardinality({k \in 1..Len(trades) :
                       /\ trades[k].symbol = stop_checked.symbol
                       /\ trades[k].exit_date = Some(stop_checked.date)}) = 1
     /\ trades[Len(trades)].exit_reason = Some("stop_loss")
     /\ ~DictHas(positions, stop_checked.symbol)

\* C3, its case: both predicates hold for the position just checked.
C3_Witness ==
  /\ stop_checked # NoStop
  /\ day_close[stop_checked.symbol] # 0
  /\ check_stop_loss(heap[stop_checked.id], day_close[stop_checked.symbol])
  /\ check_stop_win(heap[stop_checked.id], day_close[stop_checked.symbol])
  /\ heap[stop_checked.id].exit_reason = Some("stop_loss")

\* A step of the signal loop: one row of iterrows() has been processed.
SignalStep == pc = "signals" /\ signal' # NoSignal

\* The position the symbol of the signal loop holds before the step.
HeldId == DictGet(positions, cur_symbol)

\* C4: a signal processed for a symbol that holds a position of the opposite
\* direction closes it with reason pattern_exit, records exactly one trade,
\* and leaves the symbol without a position: the same signal opens nothing.
C4_PatternExitOnly ==
  [][ (/\ SignalStep
       /\ DictHas(positions, cur_symbol)
       /\ \/ (heap[HeldId].position_type = "long" /\ signal'.signal_type = "bearish")
          \/ (heap[HeldId].position_type = "short" /\ signal'.signal_type = "bullish"))
      => /\ ~DictHas(positions', cur_symbol)
         /\ Len(heap') = Len(heap)
         /\ heap'[HeldId].status = "closed"
         /\ heap'[HeldId].exit_reason = Some("pattern_exit")
         /\ heap'[HeldId].exit_date = Some(signal'.date)
         /\ heap'[HeldId].exit_price = Some(signal'.price)
         /\ closed_positions' = Append(closed_positions, HeldId)
         /\ trades' = Append(trades, to_dict(heap'[HeldId])) ]_vars

\* C4, its case: a bearish signal has just closed a long entered on an earlier
\* day, and the symbol holds nothing.
C4_Witness ==
  /\ pc = "signals"
  /\ signal.signal_type = "bearish"
  /\ ~DictHas(positions, cur_symbol)
  /\ closed_positions # <<>>
  /\ LET p == heap[closed_positions[Len(closed_positions)]]
     IN /\ p.symbol = cur_symbol
        /\ p.position_type = "long"
        /\ p.exit_reason = Some("pattern_exit")
        /\ p.exit_date = Some(signal.date)
        /\ p.entry_date < signal.date

\* C5: a position is opened only by a step of the signal loop, for the symbol
\* of the signal, which holds no position before the step; one position is
\* opened, Long for a bullish and Short for a bearish signal, and the step
\* closes nothing (the signal that closed a position does not open one).
C5_OpenOnlyWhenFree ==
  [][ (Len(heap') # Len(heap) \/ \E s \in SymbolSet : DictHas(positions', s) /\ ~DictHas(positions, s))
      => /\ SignalStep
         /\ ~DictHas(positions, cur_symbol)
         /\ Len(heap') = Len(heap) + 1
         /\ positions' = Append(positions, <<cur_symbol, Len(heap')>>)
         /\ heap'[Len(heap')].symbol = cur_symbol
         /\ heap'[Len(heap')].status = "open"
         /\ heap'[Len(heap')].entry_date = signal'.date
         /\ heap'[Len(heap')].entry_price = signal'.price
         /\ \/ (signal'.signal_type = "bullish" /\ heap'[Len(heap')].position_type = "long")
            \/ (signal'.signal_type = "bearish" /\ heap'[Len(heap')].position_type = "short")
         /\ closed_positions' = closed_positions
         /\ trades' = trades ]_vars

\* C5, its case: after a pattern exit of the symbol on this day, a later
\* bearish signal of the same day has opened a Short.
C5_Witness ==
  /\ pc = "signals"
  /\ signal.signal_type = "bearish"
  /\ DictHas(positions, cur_symbol)
  /\ heap[DictGet(positions, cur_symbol)].position_type = "short"
  /\ heap[DictGet(positions, cur_symbol)].entry_date = signal.date
  /\ \E k \in 1..Len(closed_positions) :
       /\ heap[closed_positions[k]].symbol = cur_symbol
       /\ heap[closed_positions[k]].exit_reason = Some("pattern_exit")
       /\ heap[closed_positions[k]].exit_date = Some(signal.date)

\* C6: a signal of the direction of the symbol's open position changes
\* nothing: the open map, the position, the closed history and the trades.
C6_SameDirectionIgnored ==
  [][ (/\ SignalStep
       /\ DictHas(positions, cur_symbol)
       /\ \/ (heap[HeldId].position_type = "long" /\ signal'.signal_type = "bullish")
          \/ (heap[HeldId].position_type = "short" /\ signal'.signal_type = "bearish"))
      => /\ positions' = positions
         /\ heap' = heap
         /\ closed_positions' = closed_positions
         /\ trades' = trades
         /\ cash' = cash ]_vars

\* C6, its case: a bullish signal has been processed while the symbol held a
\* Long entered on an earlier day, which it still holds.
C6_Witness ==
  /\ pc = "signals"
  /\ signal.signal_type = "bullish"
  /\ DictHas(positions, cur_symbol)
  /\ heap[DictGet(positions, cur_symbol)].position_type = "long"
  /\ heap[DictGet(positions, cur_symbol)].entry_date < signal.date

\* The exit fields of a Position.
ExitFields(p) ==
  <<p.exit_date, p.exit_price, p.exit_value, p.commission, p.return_amount,
    p.return_pct, p.hold_days, p.exit_reason>>

\* Every exit field of an open Position is unset, every one of a closed
\* Position is set; the open map holds the open ones and the closed history
\* the closed ones, each once.
ExitFieldsFollowStatus ==
  /\ \A id \in 1..Len(heap) :
       /\ heap[id].status = "open" =>
            /\ \A k \in 1..Len(ExitFields(heap[id])) : ExitFields(heap[id])[k] = None
            /\ \E i \in 1..Len(positions) : positions[i][2] = id
       /\ heap[id].status = "closed" =>
            /\ \A k \in 1..Len(ExitFields(heap[id])) : ExitFields(heap[id])[k] # None
            /\ Cardinality({k \in 1..Len(closed_positions) : closed_positions[k] = id}) = 1
            /\ \A i \in 1..Len(positions) : positions[i][2] # id
       /\ heap[id].status \in {"open", "closed"}

\* C7: in a run of the engine a Position is closed at most once: its exit
\* fields are unset while it is Open, all set by the close, and once it is
\* Closed nothing of it changes any more.
C7_ClosedOnce ==
  /\ []ExitFieldsFollowStatus
  /\ [][ /\ Len(heap') >= Len(heap)
         /\ \A id \in 1..Len(heap) :
              /\ heap[id].status = "closed" => heap'[id] = heap[id]
              /\ heap'[id] # heap[id] =>
                   /\ heap[id].status = "open"
                   /\ heap'[id].status = "closed"
                   /\ closed_positions' = Append(closed_positions, id) ]_vars

\* C7, its case: a position was closed on an earlier day and the run went on.
C7_Witness ==
  /\ pc = "signals"
  /\ \E id \in 1..Len(heap) :
       /\ heap[id].status = "closed"
       /\ heap[id].exit_date # Some(CurrentDate)
       /\ DictHas(positions, heap[id].symbol)

\* C8: close_position called on a Position whose status is already Closed
\* fails.
C8_CloseOfClosedFails ==
  (ret # None /\ ret[1].call = "Position.close_position" /\ ret[1].before = "closed")
  => ret[1].raised

\* A call of the Portfolio API has returned in this step.
CallStep(names) == calls' = calls + 1 /\ ret' # None /\ ret'[1].call \in names

\* C9: open_long_position and open_short_position called for a symbol that
\* holds a position return False, raise nothing and leave the portfolio as it
\* was: the position held, the open map, the closed history and the cash.
C9_OpenOnOccupiedRejected ==
  [][ (/\ CallStep({"open_long_position", "open_short_position"})
       /\ DictHas(positions, ret'[1].symbol))
      => /\ ret'[1].value = Some(FALSE)
         /\ ~ret'[1].raised
         /\ heap' = heap
         /\ positions' = positions
         /\ closed_positions' = closed_positions
         /\ cash' = cash ]_vars

\* C9, its case: open_long_position has returned False for a symbol that
\* holds a Short, beside another open position.
C9_Witness ==
  /\ ret # None
  /\ ret[1].call = "open_long_position"
  /\ ret[1].value = Some(FALSE)
  /\ DictHas(positions, ret[1].symbol)
  /\ heap[DictGet(positions, ret[1].symbol)].position_type = "short"
  /\ Len(positions) = 2

\* C10: close_position called for a symbol without an open position raises
\* nothing and leaves the open map, the closed history and the cash as they
\* were.
C10_CloseOfMissingIsNoOp ==
  [][ (/\ CallStep({"close_position"})
       /\ ~DictHas(positions, ret'[1].symbol))
      => /\ ~ret'[1].raised
         /\ heap' = heap
         /\ positions' = positions
         /\ closed_positions' = closed_positions
         /\ cash' = cash ]_vars

\* C10, its case: close_position has returned for a symbol that never held a
\* position, while the other symbol holds one.
C10_Witness ==
  /\ ret # None
  /\ ret[1].call = "close_position"
  /\ ~DictHas(positions, ret[1].symbol)
  /\ \A id \in 1..Len(heap) : heap[id].symbol # ret[1].symbol
  /\ Len(positions) = 1
  /\ closed_positions = <<>>

\* A step of the stop loop that closed the position it checked.
StopExitStep ==
  /\ pc = "stops"
  /\ stop_queue # <<>>
  /\ stop_queue' = Tail(stop_queue)
  /\ stop_checked'.outcome \in {"stop_loss", "stop_win"}

\* The symbol had a position closed on the current day.
ClosedToday(symbol) ==
  \E k \in 1..Len(closed_positions) :
    /\ heap[closed_positions[k]].symbol = symbol
    /\ heap[closed_positions[k]].exit_date = Some(CurrentDate)

\* C11: a close of a symbol's open position removes the symbol from the open
\* map and appends that same Position, now Closed, as the last element of the
\* closed history; the symbol is free afterwards, so an entry signal processed
\* for it later on the same day opens a new position.
C11_CloseFreesSymbol ==
  [][ /\ StopExitStep =>
            LET symbol == stop_checked'.symbol
                id == stop_checked'.id
            IN /\ DictHas(positions, symbol)
               /\ DictGet(positions, symbol) = id
               /\ heap[id].status = "open"
               /\ heap'[id].status = "closed"
               /\ Len(heap') = Len(heap)
               /\ positions' = DictDel(positions, symbol)
               /\ ~DictHas(positions', symbol)
               /\ closed_positions' = Append(closed_positions, id)
               /\ closed_positions'[Len(closed_positions')] = id
      /\ (/\ SignalStep
          /\ signal'.signal_type \in {"bullish", "bearish"}
          /\ ClosedToday(cur_symbol)
          /\ ~DictHas(positions, cur_symbol))
         => /\ DictHas(positions', cur_symbol)
            /\ Len(heap') = Len(heap) + 1
            /\ DictGet(positions', cur_symbol) = Len(heap')
            /\ heap'[Len(heap')].status = "open"
            /\ heap'[Len(heap')].entry_date = CurrentDate ]_vars

\* C11, its case: the symbol's position was closed by a stop in today's stop
\* pass, it is the last of the closed history, and a signal of today's signal
\* pass has opened a new position for the symbol.
C11_Witness ==
  /\ pc = "signals"
  /\ signal # NoSignal
  /\ closed_positions # <<>>
  /\ LET p == heap[closed_positions[Len(closed_positions)]]
     IN /\ p.symbol = cur_symbol
        /\ p.exit_reason \in {Some("stop_loss"), Some("stop_win")}
        /\ p.exit_date = Some(CurrentDate)
  /\ DictHas(positions, cur_symbol)
  /\ heap[DictGet(positions, cur_symbol)].entry_date = CurrentDate
  /\ heap[DictGet(positions, cur_symbol)].status = "open"

\* The timeline once built: strictly ascending (so without duplicates), its
\* days the union of the dates of every symbol's rows, and the day loop
\* standing on one of its days.
TimelineIsSortedUnion ==
  pc # "load" =>
    /\ \A i, j \in 1..Len(trading_days) : i < j => trading_days[i] < trading_days[j]
    /\ {trading_days[i] : i \in 1..Len(trading_days)} = UNION {all_stock_data[s] : s \in SymbolSet}
    /\ pc \in {"day", "stops", "signals"} => day_idx \in 1..Len(trading_days)
    /\ pc = "done" => day_idx = Len(trading_days)

\* C12: the timeline is the ascending-sorted union of the dates of all
\* symbols' series, without duplicates, and the engine processes every day of
\* it exactly once in ascending order: the day loop starts on the first day,
\* a day begins only by moving one day forward, and the run ends on the last.
C12_TimelineSortedUnion ==
  /\ []TimelineIsSortedUnion
  /\ [][ /\ pc # "load" => trading_days' = trading_days /\ all_stock_data' = all_stock_data
         /\ pc = "load" /\ pc' = "day" => day_idx' = 1
         /\ pc # "load" => day_idx' \in {day_idx, day_idx + 1}
         /\ pc # "load" => (day_idx' = day_idx + 1 <=> pc' = "day")
         /\ pc = "day" => pc' = "stops" /\ day_idx' = day_idx
         /\ pc' = "done" /\ pc # "done" => pc = "signals" /\ day_idx = Len(trading_days) ]_vars

\* C12, its case: the two symbols have rows on different days only (the
\* intersection of their dates is empty), and the run has processed both days.
C12_Witness ==
  /\ pc = "done"
  /\ all_stock_data["A"] = {2}
  /\ all_stock_data["B"] = {1}
  /\ trading_days = <<1, 2>>
  /\ day_idx = 2

\* The symbol has no price row dated today.
NoRowToday(s) == CurrentDate \notin all_stock_data[s]

\* C13: on a timeline day on which a symbol has no price row, neither its stop
\* check nor any of its signals is processed: its open position stays open and
\* unchanged, no position is opened for it and no trade is recorded for it.
C13_NoRowSkipsSymbol ==
  [][ \A s \in SymbolSet :
        (pc \in {"stops", "signals"} /\ NoRowToday(s))
        => /\ DictHas(positions', s) = DictHas(positions, s)
           /\ DictHas(positions, s) => DictGet(positions', s) = DictGet(positions, s)
           /\ \A id \in 1..Len(heap) : heap[id].symbol = s => heap'[id] = heap[id]
           /\ \A id \in (Len(heap) + 1)..Len(heap') : heap'[id].symbol # s
           /\ \A k \in (Len(trades) + 1)..Len(trades') : trades'[k].symbol # s
           /\ \A k \in (Len(closed_positions) + 1)..Len(closed_positions') :
                heap'[closed_positions'[k]].symbol # s
           /\ (pc' = "stops" /\ stop_checked'.symbol = s) => stop_checked'.outcome = "no_data"
           /\ (pc' = "signals" /\ signal' # NoSignal) => cur_symbol' # s
           /\ signals_cache' \ signals_cache # {s} ]_vars

\* C13, its case: today A has no row and B has one; A's position, entered on
\* an earlier day, went through the stop pass and is still open and untouched
\* while a signal of B has been processed.
C13_Witness ==
  /\ pc = "signals"
  /\ sym_queue = <<>>
  /\ NoRowToday("A")
  /\ ~NoRowToday("B")
  /\ cur_symbol = "B"
  /\ signal # NoSignal
  /\ DictHas(positions, "A")
  /\ heap[DictGet(positions, "A")].status = "open"
  /\ heap[DictGet(positions, "A")].entry_date < CurrentDate
  /\ \A k \in 1..Len(trades) : trades[k].symbol # "A"

\* The generator has run at most once per symbol, on the symbol's whole
\* series; the cache holds the symbols it has run for, and a signal being
\* processed is one of a cached symbol, dated today.
GeneratedOncePerSymbol ==
  \A s \in SymbolSet :
    /\ Len(generate_calls[s]) <= 1
    /\ s \in signals_cache <=> Len(generate_calls[s]) = 1
    /\ s \in signals_cache => generate_calls[s][1] = all_stock_data[s]
    /\ (pc = "signals" /\ signal # NoSignal /\ cur_symbol = s)
       => s \in signals_cache /\ signal.date = CurrentDate

\* C14: during one run the signal generator is invoked at most once per
\* symbol, on that symbol's full series; every day's signals of the symbol
\* come from that cached result by the date filter, and an entry of the cache
\* is never dropped, regenerated or replaced.
C14_SignalsGeneratedOnce ==
  /\ []GeneratedOncePerSymbol
  /\ [][ /\ signals_cache \subseteq signals_cache'
         /\ \A s \in signals_cache : generate_calls'[s] = generate_calls[s] ]_vars

\* C14, its case: on the second day of its series a symbol's signal has been
\* processed from the cache filled on the first day.
C14_Witness ==
  /\ pc = "signals"
  /\ day_idx = 2
  /\ signal # NoSignal
  /\ cur_symbol = "A"
  /\ all_stock_data["A"] = {1, 2}
  /\ generate_calls["A"] = <<{1, 2}>>

\* C15: every position opened during a run, Long or Short, has entry value
\* initial_capital * position_size_pct and shares = entry value / entry price,
\* whatever the cash, the number of open positions and the profit or loss of
\* the trades closed before.
C15_FixedSizing ==
  \A id \in 1..Len(heap) :
    /\ heap[id].entry_value * 100 = config.initial_capital * config.position_size_pct
    /\ heap[id].shares * heap[id].entry_price = heap[id].entry_value
    /\ heap[id].entry_value = (DefaultInitialCapital * DefaultPositionSizePct) \div 100

\* C15, its case: a Short opened at another price after a Long was closed at
\* a loss.
C15_Witness ==
  /\ pc = "signals"
  /\ \E i, j \in 1..Len(heap) :
       /\ heap[i].status = "closed"
       /\ heap[i].position_type = "long"
       /\ heap[i].return_amount # None
       /\ heap[i].return_amount[1] < 0
       /\ heap[j].status = "open"
       /\ heap[j].position_type = "short"
       /\ heap[j].entry_date >= heap[i].exit_date[1]
       /\ heap[j].entry_price # heap[i].entry_price
       /\ heap[j].shares # heap[i].shares

\* C16: the cash of the portfolio is the configured initial capital in every
\* state of a run: no open, stop exit or pattern exit changes it, and the
\* final cash the results report is the initial capital.
C16_CashNeverChanges ==
  /\ cash = config.initial_capital
  /\ cash = DefaultInitialCapital
  /\ results # None => results[1].portfolio.final_cash = config.initial_capital

\* C16, its case: the run is over, it opened Longs and Shorts, closed one at a
\* loss, holds one position still, and has reported its final cash.
C16_Witness ==
  /\ pc = "done"
  /\ results # None
  /\ results[1].portfolio.final_cash = DefaultInitialCapital
  /\ results[1].portfolio.final_positions = 1
  /\ results[1].portfolio.total_closed_positions = 1
  /\ \E i, j \in 1..Len(heap) :
       /\ heap[i].position_type = "long"
       /\ heap[j].position_type = "short"
       /\ heap[i].status = "closed"
       /\ heap[i].return_amount[1] < 0

\* C17: for every closed position exit_value = shares * exit_price;
\* return_amount = exit_value - entry_value - commission for a Long and
\* entry_value - exit_value - commission for a Short; return_pct =
\* return_amount / entry_value * 100 (held in hundredths of a percent).  A
\* Long entered at 100 with 10 shares and closed at 94 with commission 1 has
\* return_amount -61 and return_pct -6.1; so has a Short entered at 50 with 20
\* shares and closed at 53 with commission 1.
C17_ReturnArithmetic ==
  LET p == heap[1]
  IN p.status = "closed" =>
       /\ p.exit_value[1] = p.shares * p.exit_price[1]
       /\ p.position_type = "long" =>
            p.return_amount[1] = p.exit_value[1] - p.entry_value - p.commission[1]
       /\ p.position_type = "short" =>
            p.return_amount[1] = p.entry_value - p.exit_value[1] - p.commission[1]
       /\ p.return_pct[1] * p.entry_value = p.return_amount[1] * 100 * 100
       /\ (/\ p.position_type = "long" /\ p.entry_price = 100 /\ p.shares = 10
           /\ p.exit_price[1] = 94 /\ p.commission[1] = 1)
          => p.return_amount[1] = 0 - 61 /\ p.return_pct[1] = 0 - 610
       /\ (/\ p.position_type = "short" /\ p.entry_price = 50 /\ p.shares = 20
           /\ p.exit_price[1] = 53 /\ p.commission[1] = 1)
          => p.return_amount[1] = 0 - 61 /\ p.return_pct[1] = 0 - 610

\* C17, its case: the Short entered at 50 with 20 shares has been closed at 53
\* with commission 1.
C17_Witness ==
  /\ pc = "position"
  /\ heap[1].status = "closed"
  /\ heap[1].position_type = "short"
  /\ heap[1].entry_price = 50
  /\ heap[1].shares = 20
  /\ heap[1].exit_price = Some(53)
  /\ heap[1].commission = Some(1)
  /\ heap[1].exit_value = Some(1060)
  /\ heap[1].return_amount = Some(0 - 61)

\* C18: every close made through Portfolio.close_position charges
\* commission = entry_value * commission_bps / 10000, for Long and Short and
\* for every exit reason, whatever the exit price; it is charged once, at the
\* exit: an open position carries no commission, and the return of a closed
\* one is reduced by that commission once.
C18_CommissionOnEntryValue ==
  \A id \in 1..Len(heap) :
    /\ heap[id].status = "open" => heap[id].commission = None
    /\ heap[id].status = "closed" =>
         /\ heap[id].commission # None
         /\ heap[id].commission[1] * 10000 = heap[id].entry_value * config.commission_bps
         /\ heap[id].commission[1] * 10000 = heap[id].entry_value * DefaultCommissionBps
         /\ LET gross == IF heap[id].position_type = "long"
                         THEN heap[id].shares * heap[id].exit_price[1] - heap[id].entry_value
                         ELSE heap[id].entry_value - heap[id].shares * heap[id].exit_price[1]
            IN heap[id].return_amount[1] = gross - heap[id].commission[1]

\* C18, its case: close_position has closed a Short at a price other than its
\* entry price with reason stop_win, beside an open Long.
C18_Witness ==
  /\ pc = "portfolio"
  /\ ret # None
  /\ ret[1].call = "close_position"
  /\ closed_positions # <<>>
  /\ Len(positions) = 1
  /\ heap[positions[1][2]].position_type = "long"
  /\ LET p == heap[closed_positions[1]]
     IN /\ p.position_type = "short"
        /\ p.exit_reason = Some("stop_win")
        /\ p.exit_price # Some(p.entry_price)
        /\ p.commission = Some(50)

\* C19: check_stop_loss(price) is true exactly when price <= entry_price *
\* (1 - stop_loss_pct) for a Long and exactly when price >= entry_price *
\* (1 + stop_loss_pct) for a Short, a price equal to the threshold included;
\* the call changes nothing.
C19_StopLossThreshold ==
  [][ CallStep({"check_stop_loss"})
      => LET p == heap[1]
             price == ret'[1].price
         IN /\ p.position_type = "long" =>
                 (ret'[1].value <=> price * 100 <= p.entry_price * (100 - p.stop_loss_pct))
            /\ p.position_type = "short" =>
                 (ret'[1].value <=> price * 100 >= p.entry_price * (100 + p.stop_loss_pct))
            /\ ~ret'[1].raised
            /\ heap' = heap
            /\ UNCHANGED <<positions, closed_positions, cash, trades>> ]_vars

\* C19, its case: check_stop_loss has returned true for an open Long at the
\* price equal to its threshold (95 for the entry price 100).
C19_Witness ==
  /\ ret # None
  /\ ret[1].call = "check_stop_loss"
  /\ ret[1].value = TRUE
  /\ heap[1].status = "open"
  /\ heap[1].position_type = "long"
  /\ heap[1].entry_price = 100
  /\ ret[1].price = 95

\* C20: check_stop_win(price) is true exactly when price >= entry_price *
\* (1 + stop_win_pct) for a Long and exactly when price <= entry_price *
\* (1 - stop_win_pct) for a Short, a price equal to the threshold included;
\* the call changes nothing.
C20_StopWinThreshold ==
  [][ CallStep({"check_stop_win"})
      => LET p == heap[1]
             price == ret'[1].price
         IN /\ p.position_type = "long" =>
                 (ret'[1].value <=> price * 100 >= p.entry_price * (100 + p.stop_win_pct))
            /\ p.position_type = "short" =>
                 (ret'[1].value <=> price * 100 <= p.entry_price * (100 - p.stop_win_pct))
            /\ ~ret'[1].raised
            /\ heap' = heap
            /\ UNCHANGED <<positions, closed_positions, cash, trades>> ]_vars

\* C20, its case: check_stop_win has returned true for an open Short at the
\* price equal to its threshold (64 for the entry price 80).
C20_Witness ==
  /\ ret # None
  /\ ret[1].call = "check_stop_win"
  /\ ret[1].value = TRUE
  /\ heap[1].status = "open"
  /\ heap[1].position_type = "short"
  /\ heap[1].entry_price = 80
  /\ ret[1].price = 64

\* Every closed position and every trade record carries one of the three
\* exit reasons.
ExitReasonRecorded ==
  /\ \A id \in 1..Len(heap) :
       heap[id].status = "closed" => \E r \in ExitReasons : heap[id].exit_reason = Some(r)
  /\ \A k \in 1..Len(trades) : \E r \in ExitReasons : trades[k].exit_reason = Some(r)

\* C21: every closed position and every recorded trade carries exactly one of
\* the exit reasons stop_loss, stop_win, pattern_exit, and the reason matches
\* the cause: stop_loss or stop_win only for a close of the stop pass with the
\* corresponding predicate true at the day's price, pattern_exit only for a
\* close by an opposite-direction signal of the signal pass.
C21_ExitReasonMatchesCause ==
  /\ []ExitReasonRecorded
  /\ [][ \A id \in 1..Len(heap) :
           (heap[id].status = "open" /\ heap'[id].status = "closed")
           => LET p == heap[id]
                  reason == heap'[id].exit_reason
                  price == heap'[id].exit_price[1]
              IN /\ reason = Some("stop_loss") =>
                      /\ pc = "stops"
                      /\ price = day_close'[p.symbol]
                      /\ IF p.position_type = "long"
                         THEN price * 100 <= p.entry_price * (100 - p.stop_loss_pct)
                         ELSE price * 100 >= p.entry_price * (100 + p.stop_loss_pct)
                 /\ reason = Some("stop_win") =>
                      /\ pc = "stops"
                      /\ price = day_close'[p.symbol]
                      /\ IF p.position_type = "long"
                         THEN price * 100 >= p.entry_price * (100 + p.stop_win_pct)
                         ELSE price * 100 <= p.entry_price * (100 - p.stop_win_pct)
                 /\ reason = Some("pattern_exit") =>
                      /\ SignalStep
                      /\ cur_symbol = p.symbol
                      /\ \/ (p.position_type = "long" /\ signal'.signal_type = "bearish")
                         \/ (p.position_type = "short" /\ signal'.signal_type = "bullish")
                 /\ trades' = Append(trades, to_dict(heap'[id]))
                 /\ trades'[Len(trades')].exit_reason = reason ]_vars

\* C21, its case: one position was closed by its stop-win in the stop pass and
\* another by an opposite signal in the signal pass.
C21_Witness ==
  /\ pc = "signals"
  /\ Len(trades) = 2
  /\ trades[1].exit_reason = Some("stop_win")
  /\ trades[2].exit_reason = Some("pattern_exit")
  /\ heap[closed_positions[1]].exit_reason = Some("stop_win")
  /\ heap[closed_positions[2]].exit_reason = Some("pattern_exit")

\* C22: every close the engine performs is recorded into the trades at once:
\* after each stop check and each processed signal there are as many trade
\* records as closed positions, and the i-th record describes the i-th closed
\* position (symbol, direction, dates, prices, return, exit reason).
C22_TradesMirrorClosed ==
  /\ Len(trades) = Len(closed_positions)
  /\ \A i \in 1..Len(trades) :
       LET p == heap[closed_positions[i]]
       IN /\ trades[i] = to_dict(p)
          /\ trades[i].symbol = p.symbol
          /\ trades[i].position_type = p.position_type
          /\ trades[i].entry_date = p.entry_date
          /\ trades[i].exit_date = p.exit_date
          /\ trades[i].entry_price = p.entry_price
          /\ trades[i].exit_price = p.exit_price
          /\ trades[i].return_pct = p.return_pct
          /\ trades[i].return_amount = p.return_amount
          /\ trades[i].exit_reason = p.exit_reason
          /\ p.status = "closed"

\* C22, its case: in the stop pass, after a pattern exit of one symbol on an
\* earlier day, a stop has closed the other symbol's position, and the stop
\* loop has not returned yet.
C22_Witness ==
  /\ pc = "stops"
  /\ stop_checked.outcome \in {"stop_loss", "stop_win"}
  /\ Len(trades) = 2
  /\ trades[1].exit_reason = Some("pattern_exit")
  /\ trades[2].symbol = stop_checked.symbol
  /\ trades[1].symbol # trades[2].symbol
  /\ trades[2].exit_date = Some(CurrentDate)

\* C23: calculate_metrics is idempotent and read-only: a call that follows
\* another with no add_trade in between returns what that one returned, and no
\* call changes the stored trade list.
C23_MetricsIdempotent ==
  [][ CallStep({"calculate_metrics"})
      => /\ trades' = trades
         /\ ~ret'[1].raised
         /\ (ret # None /\ ret[1].call = "calculate_metrics") => ret'[1].value = ret[1].value ]_vars

\* C23, its case: calculate_metrics has been called twice in a row on two
\* recorded trades.
C23_Witness ==
  /\ pc = "performance"
  /\ calls = 4
  /\ Len(trades) = 2
  /\ ret # None
  /\ ret[1].call = "calculate_metrics"
  /\ ret[1].value.overall.total_trades = 2

\* calculate_metrics has returned and its value is at hand.
MetricsReturned == ret # None /\ ret[1].call = "calculate_metrics"

\* The trades of one direction among those recorded.
TradesOf(position_type) == SelectSeq(trades, LAMBDA t : t.position_type = position_type)

\* group.get(key): None when the group holds no such key.
Lookup(group, key) == IF key \in DOMAIN group THEN Some(group[key]) ELSE None

\* The statistic `key` of the group is reported, and is 0.
ReportedZero(group, key) ==
  /\ Lookup(group, key) # None
  /\ IF key \in {"hit_rate", "average_return"}
     THEN Lookup(group, key)[1].num = 0
     ELSE Lookup(group, key)[1] = 0

\* The group is reported as all zeros: no trade, and every statistic 0.
AllZero(group) ==
  \A key \in {"total_trades", "profitable_trades", "hit_rate", "average_return",
               "total_return", "best_trade", "worst_trade"} : ReportedZero(group, key)

\* C24 as stated: with zero recorded trades calculate_metrics reports hit
\* rate, average return, total return, best trade and worst trade, all 0, for
\* the long group, the short group and the combined group.
C24_AllGroupsAllZero ==
  (MetricsReturned /\ trades = <<>>)
  => /\ ~ret[1].raised
     /\ ret[1].value.overall.total_trades = 0
     /\ \A g \in {"long_positions", "short_positions", "combined"} :
          \A key \in {"hit_rate", "average_return", "total_return", "best_trade", "worst_trade"} :
            ReportedZero(ret[1].value[g], key)

\* C24, amended: with zero recorded trades calculate_metrics returns, without
\* raising, total_trades = 0, the long and the short group all zeros (hit rate,
\* average return, total return, best trade, worst trade, trade counts), and
\* the combined group, which holds a hit rate and an average return only, both
\* 0; a single group without trades is reported as all zeros while the other
\* group has trades.
C24_EmptyGroupsAreZero ==
  MetricsReturned
  => /\ ~ret[1].raised
     /\ ret[1].value.overall.total_trades = Len(trades)
     /\ DOMAIN ret[1].value.combined = {"hit_rate", "average_return"}
     /\ trades = <<>> =>
          /\ ReportedZero(ret[1].value.combined, "hit_rate")
          /\ ReportedZero(ret[1].value.combined, "average_return")
     /\ TradesOf("long") = <<>> => AllZero(ret[1].value.long_positions)
     /\ TradesOf("short") = <<>> => AllZero(ret[1].value.short_positions)

\* C24, its case: calculate_metrics has returned on a PerformanceMetrics that
\* holds no trade.
C24_Witness ==
  /\ pc = "performance"
  /\ MetricsReturned
  /\ trades = <<>>
  /\ ret[1].value = empty_results

\* The group reported for the trades ts states the claim's statistics of them.
GroupStatistics(group, ts) ==
  LET n == Len(ts)
      hits == Cardinality({i \in 1..n : ts[i].return_pct[1] > 0})
      total == SumSeq(Returns(ts))
  IN /\ group.total_trades = n
     /\ group.profitable_trades = hits
     /\ group.hit_rate.den # 0
     /\ group.hit_rate.num * n = 100 * hits * group.hit_rate.den
     /\ group.average_return.den # 0
     /\ group.average_return.num * n = total * group.average_return.den
     /\ group.total_return = total
     /\ \E i \in 1..n : group.best_trade = ts[i].return_pct[1]
     /\ \A i \in 1..n : group.best_trade >= ts[i].return_pct[1]
     /\ \E i \in 1..n : group.worst_trade = ts[i].return_pct[1]
     /\ \A i \in 1..n : group.worst_trade <= ts[i].return_pct[1]

\* C25: for each direction group (long, short) with at least one trade:
\* hit_rate = 100 * (trades with return_pct strictly > 0) / (trades), so a
\* trade with return_pct exactly 0 is not a hit; average_return is the mean,
\* total_return the sum, best_trade the maximum and worst_trade the minimum of
\* the group's return_pct values.
C25_GroupStatistics ==
  MetricsReturned
  => /\ TradesOf("long") # <<>> =>
          GroupStatistics(ret[1].value.long_positions, TradesOf("long"))
     /\ TradesOf("short") # <<>> =>
          GroupStatistics(ret[1].value.short_positions, TradesOf("short"))

\* C25, its case: the long group holds a trade that gained and a trade with
\* return_pct exactly 0, and is reported with one hit of two; the short group
\* holds a trade that lost.
C25_Witness ==
  /\ pc = "performance"
  /\ MetricsReturned
  /\ Len(TradesOf("long")) = 2
  /\ Len(TradesOf("short")) = 1
  /\ ret[1].value.long_positions.profitable_trades = 1
  /\ ret[1].value.long_positions.hit_rate = Quotient(100, 2)
  /\ ret[1].value.long_positions.worst_trade = 0
  /\ ret[1].value.long_positions.best_trade = 2490
  /\ ret[1].value.long_positions.total_return = 2490
  /\ ret[1].value.short_positions.best_trade < 0

\* C26: combined.hit_rate and combined.average_return are computed over all
\* recorded trades whatever their direction: the profitable trades over all
\* trades, the mean return_pct over all trades; not the mean of the two
\* groups' values.
C26_CombinedOverAllTrades ==
  (MetricsReturned /\ trades # <<>>)
  => LET n == Len(trades)
         hits == Cardinality({i \in 1..n : trades[i].return_pct[1] > 0})
         combined == ret[1].value.combined
     IN /\ combined.hit_rate.den # 0
        /\ combined.hit_rate.num * n = 100 * hits * combined.hit_rate.den
        /\ combined.average_return.den # 0
        /\ combined.average_return.num * n = SumSeq(Returns(trades)) * combined.average_return.den

\* C26, its case: two long trades with one hit and one short trade without:
\* the groups' hit rates are 50 and 0, their mean 25, and the combined hit
\* rate 100 / 3.
C26_Witness ==
  /\ pc = "performance"
  /\ MetricsReturned
  /\ ret[1].value.long_positions.hit_rate = Quotient(100, 2)
  /\ ret[1].value.short_positions.hit_rate = Quotient(0, 1)
  /\ ret[1].value.combined.hit_rate = Quotient(100, 3)
  /\ ret[1].value.combined.average_return.den = 3
  /\ ret[1].value.overall.total_trades = 3

\* C27: the simulation is deterministic: two runs of freshly constructed
\* engines on the same series, signals and configuration return the same
\* ordered trade records, the same final open positions and the same metrics,
\* in whatever order the directory lists the files to each.
C27_Deterministic ==
  run_outcome # None =>
    /\ run_outcome[1].first.raised = run_outcome[1].second.raised
    /\ run_outcome[1].first.trades = run_outcome[1].second.trades
    /\ run_outcome[1].first.open = run_outcome[1].second.open
    /\ run_outcome[1].first.results = run_outcome[1].second.results

\* C27, its case: the directory was listed in different orders to the two
\* runs, and each run closed positions of both symbols on one day.
C27_Witness ==
  /\ run_outcome # None
  /\ scenario[1].first # scenario[1].second
  /\ Len(run_outcome[1].first.trades) = 2
  /\ run_outcome[1].first.trades[1].symbol # run_outcome[1].first.trades[2].symbol
  /\ run_outcome[1].first.trades[1].exit_date = run_outcome[1].first.trades[2].exit_date
  /\ run_outcome[1].second.trades = run_outcome[1].first.trades

\* What a run holds of one symbol: its trade records in order, and its open
\* position if it has one.
OfSymbol(run, symbol) ==
  [trades |-> SelectSeq(run.trades, LAMBDA t : t.symbol = symbol),
   open |-> SelectSeq(run.open, LAMBDA p : p.symbol = symbol)]

InvalidData == pc # "files" /\ \E s \in SymbolSet : stock_files[s] # "valid"

\* C29: a run on input with a missing required column fails at load time: the
\* engine never opens a position, closes a position or records a trade on
\* invalid data.
C29_NoSimulationOnInvalidData ==
  InvalidData => heap = <<>> /\ positions = <<>> /\ closed_positions = <<>> /\ trades = <<>>

\* C30: run_backtest runs to completion on every bounded pre-loaded dataset:
\* it eventually reaches the finalize step and returns the metrics with the
\* portfolio summary, also when every symbol has zero rows.
C30_RunsToCompletion == <>(pc = "done" /\ results # None)

\* The symbols the stop pass has still to visit.
Pending == {stop_queue[i][1] : i \in 1..Len(stop_queue)}

\* C31: the stop pass works on a snapshot of the open map: during the pass
\* every item still to visit is a distinct position that is still open and
\* whose row was not read yet (none is repeated, none was closed by the check
\* of another), and every open position with a row today that is no longer to
\* visit had its row read and its stops tested (none is skipped).
C31_SnapshotCheckedOnce ==
  pc = "stops" =>
    /\ \A i, j \in 1..Len(stop_queue) : stop_queue[i][1] = stop_queue[j][1] => i = j
    /\ \A i \in 1..Len(stop_queue) :
         /\ DictHas(positions, stop_queue[i][1])
         /\ DictGet(positions, stop_queue[i][1]) = stop_queue[i][2]
         /\ heap[stop_queue[i][2]].status = "open"
         /\ day_close[stop_queue[i][1]] = 0
    /\ \A s \in SymbolSet :
         DictHas(positions, s) /\ HasRow(s) /\ s \notin Pending => day_close[s] # 0

\* C31, its case: the pass began with two open positions whose symbols both
\* have a row today; the first was closed by its stop, and the second was
\* checked after it and is held.
C31_Witness ==
  /\ pc = "stops"
  /\ stop_queue = <<>>
  /\ Len(closed_positions) = 1
  /\ heap[closed_positions[1]].exit_date = Some(CurrentDate)
  /\ heap[closed_positions[1]].exit_reason \in {Some("stop_loss"), Some("stop_win")}
  /\ Len(positions) = 1
  /\ heap[positions[1][2]].entry_date < CurrentDate
  /\ positions[1][2] > closed_positions[1]
  /\ stop_checked.id = positions[1][2]
  /\ stop_checked.outcome = "hold"
  /\ day_close[positions[1][1]] # 0

\* What the open position of a symbol is worth at the prices given: nothing
\* when the symbol holds no position or has no price.
WorthOf(symbol, current_prices) ==
  IF ~DictHas(positions, symbol) \/ symbol \notin DOMAIN current_prices THEN 0
  ELSE LET p == heap[DictGet(positions, symbol)]
       IN IF p.position_type = "long"
          THEN p.shares * current_prices[symbol]
          ELSE p.entry_value - p.shares * current_prices[symbol]

StatisticsReturned == ret # None /\ ret[1].call = "_calculate_symbol_statistics"

\* The keys of the per-group metrics.
GroupKeys == DOMAIN ZeroMetrics

\* C33: the statistics by symbol have the shape of the per-group metrics with
\* the symbol as key: each symbol with a trade appears exactly once, with the
\* count, the hits (return_pct > 0), the hit rate, the mean, the sum, the best
\* and the worst return over exactly that symbol's trades, no other symbol
\* appears, and the counts add up to the number of trades.
C33_SymbolStatistics ==
  StatisticsReturned =>
    LET stats == ret[1].value
    IN /\ \A s \in SymbolSet :
            Cardinality({k \in 1..Len(stats) : stats[k].symbol = s})
              = IF \E i \in 1..Len(trades) : trades[i].symbol = s THEN 1 ELSE 0
       /\ \A k \in 1..Len(stats) :
            /\ DOMAIN stats[k] = GroupKeys \cup {"symbol"}
            /\ stats[k].symbol \in SymbolSet
            /\ GroupStatistics(stats[k],
                               SelectSeq(trades, LAMBDA t : t.symbol = stats[k].symbol))
       /\ SumSeq([k \in 1..Len(stats) |-> stats[k].total_trades]) = Len(trades)

\* C33, its case: three trades are recorded, two of B (one gained, one with
\* return 0) around one of A that lost; B is reported first, with one hit of
\* two, and A second.
C33_Witness ==
  /\ StatisticsReturned
  /\ Len(trades) = 3
  /\ Len(ret[1].value) = 2
  /\ ret[1].value[1].symbol = "B"
  /\ ret[1].value[1].total_trades = 2
  /\ ret[1].value[1].profitable_trades = 1
  /\ ret[1].value[1].worst_trade = 0
  /\ ret[1].value[2].symbol = "A"
  /\ ret[1].value[2].best_trade < 0
  /\ trades[2].symbol = "A"

\* The Position objects the open map refers to, and those the closed history
\* holds.
OpenIds == {positions[i][2] : i \in 1..Len(positions)}

ClosedIds == {closed_positions[i] : i \in 1..Len(closed_positions)}

\* C34: positions are conserved: the positions opened so far (each successful
\* open constructs one Position) are as many as the open ones plus the closed
\* ones; each is in the open map or in the closed history, once, and never in
\* both; the summary returned counts them the same way.
C34_PositionsConserved ==
  /\ Len(heap) = Len(positions) + Len(closed_positions)
  /\ Cardinality(OpenIds) = Len(positions)
  /\ Cardinality(ClosedIds) = Len(closed_positions)
  /\ OpenIds \cap ClosedIds = {}
  /\ OpenIds \cup ClosedIds = 1..Len(heap)
  /\ results # None =>
       results[1].portfolio.final_positions + results[1].portfolio.total_closed_positions
         = Len(heap)

\* C34, its case: the run is over after two opens; one of the positions was
\* closed and the other is still open.
C34_Witness ==
  /\ pc = "done"
  /\ Len(heap) = 2
  /\ Len(positions) = 1
  /\ Len(closed_positions) = 1
  /\ results[1].portfolio.final_positions = 1
  /\ results[1].portfolio.total_closed_positions = 1

\* C35: every closed trade has its exit day on or after its entry day and
\* hold_days >= 0, and a trade closed by a stop has its exit day after its entry
\* day: no position is stop-closed on the day it was opened.
C35_StopExitAfterEntryDay ==
  \A i \in 1..Len(trades) :
    /\ trades[i].exit_date[1] >= trades[i].entry_date
    /\ trades[i].hold_days[1] >= 0
    /\ trades[i].exit_reason[1] \in {"stop_loss", "stop_win"}
         => trades[i].exit_date[1] > trades[i].entry_date

\* C35, its case: a position whose stop-win condition its own entry price
\* satisfied stayed open on its entry day and was closed by stop-win on the
\* next day.
C35_Witness ==
  /\ Len(closed_positions) = 1
  /\ Len(trades) = 1
  /\ trades[1].exit_reason = Some("stop_win")
  /\ trades[1].entry_date = 1
  /\ trades[1].exit_date = Some(2)
  /\ trades[1].hold_days = Some(1)
  /\ check_stop_win(heap[closed_positions[1]], trades[1].entry_price)

\* The trades of one symbol, in recorded order.
TradesOfSymbol(symbol) == SelectSeq(trades, LAMBDA t : t.symbol = symbol)

\* C36: the trades of a symbol never overlap in time: in recorded order each
\* trade is entered on or after the exit day of the one before, and a position
\* of the symbol that is still open was entered on or after the exit day of
\* the symbol's last trade.
C36_TradesDoNotOverlap ==
  \A s \in SymbolSet :
    LET ts == TradesOfSymbol(s)
    IN /\ \A i \in 1..(Len(ts) - 1) : ts[i + 1].entry_date >= ts[i].exit_date[1]
       /\ (ts # <<>> /\ DictHas(positions, s))
            => heap[DictGet(positions, s)].entry_date >= ts[Len(ts)].exit_date[1]

\* C36, its case: a symbol has two trades; the first was held from day 1 to
\* day 2, and the second was entered on the day the first was closed.
C36_Witness ==
  \E s \in SymbolSet :
    LET ts == TradesOfSymbol(s)
    IN /\ Len(ts) = 2
       /\ ts[1].entry_date < ts[1].exit_date[1]
       /\ ts[2].entry_date = ts[1].exit_date[1]

\* The trade was closed by a stop.
StopExit(t) == t.exit_reason[1] \in {"stop_loss", "stop_win"}

\* C37: the trade list is ordered by non-decreasing exit day, and among the
\* trades closed on one day all stop exits precede all pattern exits.
C37_TradesInExitOrder ==
  \A i, j \in 1..Len(trades) :
    i < j =>
      /\ trades[i].exit_date[1] <= trades[j].exit_date[1]
      /\ (trades[i].exit_date = trades[j].exit_date /\ StopExit(trades[j]))
           => StopExit(trades[i])

\* C37, its case: two positions were closed on day 2, one by a stop and one by
\* an opposite pattern, and the stop exit is recorded first.
C37_Witness ==
  /\ Len(trades) = 2
  /\ trades[1].exit_date = Some(2)
  /\ trades[2].exit_date = Some(2)
  /\ StopExit(trades[1])
  /\ trades[2].exit_reason = Some("pattern_exit")
  /\ trades[1].symbol = "B"
  /\ trades[2].symbol = "A"

\* The records of the closed history, in its order.
ClosedRecords == [i \in 1..Len(closed_positions) |-> to_dict(heap[closed_positions[i]])]

\* C38: there is no liquidation at the end of the run: a position still open
\* after the last day stays Open with its exit fields unset, is counted in
\* final_positions, has no trade record (the trade records are those of the
\* closed history), and the metrics returned are those of the closed
\* positions' trades alone.
C38_NoLiquidation ==
  pc = "done" =>
    /\ \A i \in 1..Len(positions) :
         LET position == heap[positions[i][2]]
         IN /\ position.status = "open"
            /\ \A k \in 1..Len(ExitFields(position)) : ExitFields(position)[k] = None
            /\ positions[i][2] \notin ClosedIds
    /\ trades = ClosedRecords
    /\ results[1].portfolio.final_positions = Len(positions)
    /\ results[1].overall.total_trades = Len(closed_positions)
    /\ [overall |-> results[1].overall, long_positions |-> results[1].long_positions,
        short_positions |-> results[1].short_positions, combined |-> results[1].combined]
         = calculate_metrics(ClosedRecords)

\* C38, its case: the run is over with a closed trade and a position that was
\* opened on day 1 and is still open after day 2; the results count one trade
\* and one final position.
C38_Witness ==
  /\ pc = "done"
  /\ day_idx = 2
  /\ Len(positions) = 1
  /\ heap[positions[1][2]].entry_date = 1
  /\ heap[positions[1][2]].status = "open"
  /\ Len(trades) = 1
  /\ results[1].overall.total_trades = 1
  /\ results[1].portfolio.final_positions = 1

\* C39: a signal whose type is neither 'bullish' nor 'bearish' has no effect:
\* whether or not the symbol holds a position, processing it opens nothing,
\* closes nothing and records no trade.
C39_OtherSignalHasNoEffect ==
  [][ (SignalStep /\ signal'.signal_type \notin {"bullish", "bearish"})
      => UNCHANGED <<heap, positions, closed_positions, cash, trades>> ]_vars

\* C39, its case: a 'none' signal was processed for a symbol that holds a
\* position entered on an earlier day, and the position is still open.
C39_Witness ==
  /\ pc = "signals"
  /\ signal.signal_type = "none"
  /\ signal.date = 2
  /\ DictHas(positions, cur_symbol)
  /\ heap[DictGet(positions, cur_symbol)].entry_date = 1
  /\ heap[DictGet(positions, cur_symbol)].status = "open"
  /\ trades = <<>>

\* The average of the group lies between its worst and its best trade.
AverageWithinRange(group) ==
  /\ ~FLess(group.average_return, group.worst_trade)
  /\ ~FLess(group.best_trade, group.average_return)

\* C40: in every result of the metrics the groups partition the trades (the
\* long and the short total_trades add up to the number of trades), and in
\* every group profitable_trades <= total_trades and
\* worst_trade <= average_return <= best_trade.
C40_AverageBetweenWorstAndBest ==
  (ret # None /\ ret[1].call = "_calculate_position_metrics") =>
    LET long == ret[1].value.long_positions
        short == ret[1].value.short_positions
    IN /\ long.total_trades + short.total_trades = Len(trades)
       /\ long.profitable_trades <= long.total_trades
       /\ short.profitable_trades <= short.total_trades
       /\ AverageWithinRange(long)
       /\ AverageWithinRange(short)

====
